---- MODULE Spec2Model ----
(***************************************************************************)
(* Verification model of the divvy analysis pipeline:                      *)
(*   - RetryHandler.withRetry / executeWithRetry / isRetryableError        *)
(*   - RetryHandler.createCircuitBreaker                                   *)
(*   - DatabaseService (createOptionsHash, ensureTicker, saveAnalysis,     *)
(*     getRecentAnalysis, hydrateAnalysisFromRecord)                       *)
(*   - DividendAnalysisService.analyze                                     *)
(* Each subsystem has its own specification over the shared variables.     *)
(***************************************************************************)
EXTENDS Integers, Sequences, FiniteSets, TLC

VARIABLES
  now,              \* the wall clock (Date.now()), in clock ticks
  \* ---- RetryHandler.withRetry ----
  rPc,              \* "idle" | "calling" | "sleeping" | "returned" | "threw"
  rConfig,          \* name of the retry configuration in use
  rAttempt,         \* loop variable `attempt`
  rLastError,       \* `lastError`
  rCalls,           \* number of times `operation()` has been invoked
  rDelays,          \* number of times `sleep(delay)` has been awaited
  rDelay,           \* `delay` of the latest sleep, in thousandths of a millisecond
  rResult,          \* what withRetry returned / threw
  rResolved,        \* history: the value an attempt of the operation resolved with
  \* ---- RetryHandler.createCircuitBreaker closure ----
  failures,         \* `failures`
  lastFailureTime,  \* `lastFailureTime`
  isOpen,           \* `isOpen`
  calls,            \* per caller: the state of its call of the returned closure
  consecFails,      \* history: consecutive failed invocations of the operation
  lastFailAt,       \* history: clock time at which the last invocation failed
  \* ---- the persistent store (supabase) ----
  tickers,          \* table `tickers`: the set of symbols present
  analyses,         \* table `analyses`: the rows, in insertion order
  \* ---- DividendAnalysisService.analyze ----
  avAvailable,      \* this.alphaVantageService is not null
  procs,            \* per analyze call: its position and working data
  \* ---- direct callers of DatabaseService and of the pure functions ----
  query,            \* the last getRecentAnalysis call and what it returned
  pin,              \* input of the pure function under check
  pout              \* its output

retryVars == <<rPc, rConfig, rAttempt, rLastError, rCalls, rDelays, rDelay, rResult, rResolved>>
breakerVars == <<failures, lastFailureTime, isOpen, calls, consecFails, lastFailAt>>
storeVars == <<tickers, analyses>>
analyzeVars == <<avAvailable, procs>>
pureVars == <<pin, pout>>
vars == <<now, retryVars, breakerVars, storeVars, analyzeVars, query, pureVars>>

Min(a, b) == IF a <= b THEN a ELSE b
Max(a, b) == IF a >= b THEN a ELSE b

(***************************************************************************)
(* Error objects (errors/DivvyErrors and plain Errors).                    *)
(*   cls  : the class                                                      *)
(*   code : the `code` property ("none" when the object has no string code)*)
(*   flag : the `isRetryable` property (FALSE also when absent)            *)
(*   pat  : message or name matches one of the network error patterns      *)
(***************************************************************************)
NoError == [cls |-> "none", code |-> "none", flag |-> FALSE, pat |-> FALSE]

NetworkError == [cls |-> "NetworkError", code |-> "NETWORK_ERROR", flag |-> TRUE, pat |-> FALSE]

RateLimitError == [cls |-> "RateLimitError", code |-> "RATE_LIMIT", flag |-> TRUE, pat |-> TRUE]

DataSourceError(source, isRetryable) ==
  [cls |-> "DataSourceError", code |-> "DATA_SOURCE_" \o source, flag |-> isRetryable, pat |-> FALSE]

TickerNotFoundError == [cls |-> "TickerNotFoundError", code |-> "TICKER_NOT_FOUND", flag |-> FALSE, pat |-> FALSE]

InsufficientDataError == [cls |-> "InsufficientDataError", code |-> "INSUFFICIENT_DATA", flag |-> FALSE, pat |-> FALSE]

DataQualityError(dataType) ==
  [cls |-> "DataQualityError", code |-> "DATA_QUALITY_" \o dataType, flag |-> FALSE, pat |-> FALSE]

PlainError(code, pat) == [cls |-> "Error", code |-> code, flag |-> FALSE, pat |-> pat]

RetryFailedError == PlainError("none", FALSE)   \* new Error('Retry operation failed')

OperationErrors ==
  { NetworkError, RateLimitError, TickerNotFoundError, InsufficientDataError,
    DataSourceError("YAHOO", TRUE), DataSourceError("YAHOO", FALSE),
    DataSourceError("ALPHAVANTAGE", TRUE), DataSourceError("ALPHAVANTAGE", FALSE),
    DataQualityError("QUOTE"),
    PlainError("ENOTFOUND", TRUE), PlainError("none", TRUE), PlainError("none", FALSE) }

(***************************************************************************)
(* Retry configurations: DEFAULT_CONFIG merged with the partial config.    *)
(***************************************************************************)
DefaultMaxAttempts == 3
NetworkMaxAttempts == 3
DataSourceMaxAttempts == 2
RateLimitMaxAttempts == 5

\* backoffMultiplier is in tenths and jitterFactor in thousandths.  `capped` is
\* a caller's partial config { maxDelayMs: 1500 } merged with DEFAULT_CONFIG.
RetryConfigs ==
  [ default    |-> [maxAttempts |-> DefaultMaxAttempts,
                    baseDelayMs |-> 1000, maxDelayMs |-> 30000,
                    backoffMultiplier |-> 20, jitterFactor |-> 100,
                    retryableErrors |-> {"NETWORK_ERROR", "DATA_SOURCE_YAHOO", "RATE_LIMIT"}],
    network    |-> [maxAttempts |-> NetworkMaxAttempts,
                    baseDelayMs |-> 2000, maxDelayMs |-> 10000,
                    backoffMultiplier |-> 20, jitterFactor |-> 100,
                    retryableErrors |-> {"NETWORK_ERROR", "RATE_LIMIT"}],
    dataSource |-> [maxAttempts |-> DataSourceMaxAttempts,
                    baseDelayMs |-> 1500, maxDelayMs |-> 5000,
                    backoffMultiplier |-> 20, jitterFactor |-> 100,
                    retryableErrors |-> {"DATA_SOURCE_YAHOO", "NETWORK_ERROR"}],
    rateLimit  |-> [maxAttempts |-> RateLimitMaxAttempts,
                    baseDelayMs |-> 5000, maxDelayMs |-> 60000,
                    backoffMultiplier |-> 15, jitterFactor |-> 100,
                    retryableErrors |-> {"RATE_LIMIT"}],
    capped     |-> [maxAttempts |-> DefaultMaxAttempts,
                    baseDelayMs |-> 1000, maxDelayMs |-> 1500,
                    backoffMultiplier |-> 20, jitterFactor |-> 100,
                    retryableErrors |-> {"NETWORK_ERROR", "DATA_SOURCE_YAHOO", "RATE_LIMIT"}] ]

ConfigNames == DOMAIN RetryConfigs

NoResult == [kind |-> "none", value |-> "undefined", error |-> NoError]
ValueResult(v) == [kind |-> "value", value |-> v, error |-> NoError]
ErrorResult(e) == [kind |-> "error", value |-> "undefined", error |-> e]

\* Values the wrapped operation can resolve with; "undefined" is JS undefined.
OperationValues == {"undefined", "v1", "v2"}

NotResolved == [done |-> FALSE, value |-> "undefined"]
ResolvedWith(v) == [done |-> TRUE, value |-> v]

isRetryableError(error, retryableErrors) ==
  IF error.flag THEN TRUE
  ELSE IF error.code # "none" THEN error.code \in retryableErrors
  ELSE IF error.cls \in {"NetworkError", "RateLimitError", "DataSourceError"} THEN error.flag
  ELSE error.pat

(***************************************************************************)
(* calculateDelay(attempt, config).  Delays are in thousandths of a        *)
(* millisecond; Math.random() draws one of the fractions r / RandomSteps.  *)
(***************************************************************************)
RandomSteps == 4
RandomDraws == 0 .. (RandomSteps - 1)

RECURSIVE Pow(_, _)
Pow(b, e) == IF e = 0 THEN 1 ELSE b * Pow(b, e - 1)

\* config.baseDelayMs * Math.pow(config.backoffMultiplier, attempt - 1)
BackoffDelay(attempt, config) ==
  config.baseDelayMs * Pow(config.backoffMultiplier, attempt - 1)
    * (1000 \div Pow(10, attempt - 1))

\* Mutant: the delay is not capped at maxDelayMs.
calculateDelayNoCap(attempt, config, rnd) ==
  LET baseDelay == BackoffDelay(attempt, config)
      jitter == ((baseDelay \div 1000) * config.jitterFactor * rnd) \div RandomSteps
  IN  baseDelay + jitter

calculateDelay(attempt, config, rnd) ==
  LET baseDelay == BackoffDelay(attempt, config)
      jitter == ((baseDelay \div 1000) * config.jitterFactor * rnd) \div RandomSteps
      delayWithJitter == baseDelay + jitter
  IN  IF delayWithJitter < config.maxDelayMs * 1000
        THEN delayWithJitter ELSE config.maxDelayMs * 1000

(***************************************************************************)
(* withRetry / executeWithRetry                                            *)
(***************************************************************************)
RetryInit ==
  /\ rPc = "idle"
  /\ rConfig = "default"
  /\ rAttempt = 0
  /\ rLastError = NoError
  /\ rCalls = 0
  /\ rDelays = 0
  /\ rDelay = 0
  /\ rResult = NoResult
  /\ rResolved = NotResolved

\* withRetry(operation, config): the loop starts and invokes operation().
withRetry(cfg) ==
  /\ rPc \in {"idle", "returned", "threw"}
  /\ rPc' = "calling"
  /\ rConfig' = cfg
  /\ rAttempt' = 1
  /\ rLastError' = NoError
  /\ rCalls' = 1
  /\ rDelays' = 0
  /\ rDelay' = 0
  /\ rResult' = NoResult
  /\ rResolved' = NotResolved

\* `await operation()` resolves with v: executeWithRetry returns success, and
\* withRetry returns the value unless it is undefined.
OperationResolves(v) ==
  /\ rPc = "calling"
  /\ IF v # "undefined"
       THEN /\ rPc' = "returned"
            /\ rResult' = ValueResult(v)
       ELSE /\ rPc' = "threw"
            /\ rResult' = ErrorResult(RetryFailedError)
  /\ rResolved' = ResolvedWith(v)
  /\ UNCHANGED <<rConfig, rAttempt, rLastError, rCalls, rDelays, rDelay>>

\* Mutant: the delay is also waited after the final attempt.
OperationRejectsAlwaysDelays(e) ==
  /\ rPc = "calling"
  /\ rLastError' = e
  /\ IF ~isRetryableError(e, RetryConfigs[rConfig].retryableErrors)
       THEN /\ rPc' = "threw"
            /\ rResult' = ErrorResult(e)
            /\ UNCHANGED <<rDelays, rDelay>>
       ELSE IF rAttempt <= RetryConfigs[rConfig].maxAttempts
         THEN /\ rPc' = "sleeping"
              /\ rDelays' = rDelays + 1
              /\ \E rnd \in RandomDraws :
                   rDelay' = calculateDelay(rAttempt, RetryConfigs[rConfig], rnd)
              /\ UNCHANGED rResult
         ELSE /\ rPc' = "threw"
              /\ rResult' = ErrorResult(e)
              /\ UNCHANGED <<rDelays, rDelay>>
  /\ UNCHANGED <<rConfig, rAttempt, rCalls, rResolved>>

\* `await operation()` rejects with e: the catch block.
OperationRejects(e) ==
  /\ rPc = "calling"
  /\ rLastError' = e
  /\ IF ~isRetryableError(e, RetryConfigs[rConfig].retryableErrors)
       THEN /\ rPc' = "threw"
            /\ rResult' = ErrorResult(e)
            /\ UNCHANGED <<rDelays, rDelay>>
       ELSE IF rAttempt < RetryConfigs[rConfig].maxAttempts
         THEN /\ rPc' = "sleeping"
              /\ rDelays' = rDelays + 1
              /\ \E rnd \in RandomDraws :
                   rDelay' = calculateDelay(rAttempt, RetryConfigs[rConfig], rnd)
              /\ UNCHANGED rResult
         ELSE /\ rPc' = "threw"
              /\ rResult' = ErrorResult(e)
              /\ UNCHANGED <<rDelays, rDelay>>
  /\ UNCHANGED <<rConfig, rAttempt, rCalls, rResolved>>

\* sleep(delay) is over: next loop iteration invokes operation() again.
SleepDone ==
  /\ rPc = "sleeping"
  /\ rPc' = "calling"
  /\ rAttempt' = rAttempt + 1
  /\ rCalls' = rCalls + 1
  /\ UNCHANGED <<rConfig, rLastError, rDelays, rDelay, rResult, rResolved>>

(***************************************************************************)
(* createCircuitBreaker(operation, failureThreshold, recoveryTimeMs)       *)
(***************************************************************************)
FailureThreshold == 2     \* `failureThreshold` the breaker was created with
RecoveryTimeMs == 2       \* `recoveryTimeMs` the breaker was created with
NumCallers == 2           \* callers of the returned closure
MaxTime == 7              \* the clock stops advancing here

Callers == 1..NumCallers

IdleCall == [phase |-> "idle", startedAt |-> 0, trial |-> FALSE]

CircuitBreakerError == DataSourceError("CIRCUIT_BREAKER", TRUE)

BreakerInit ==
  /\ failures = 0
  /\ lastFailureTime = 0
  /\ isOpen = FALSE
  /\ calls = [c \in Callers |-> IdleCall]
  /\ consecFails = 0
  /\ lastFailAt = 0

\* `now - lastFailureTime > recoveryTimeMs`
RecoveryElapsed(t) == t - lastFailureTime > RecoveryTimeMs

\* Mutant: the reset after the recovery window forgets `failures = 0`.
BreakerCallKeepsFailures(c) ==
  /\ calls[c].phase # "running"
  /\ LET reset == isOpen /\ RecoveryElapsed(now)
         open  == isOpen /\ ~reset
     IN /\ isOpen' = open
        /\ failures' = failures
        /\ calls' = [calls EXCEPT ![c] =
                       IF open
                         THEN [phase |-> "rejected", startedAt |-> now, trial |-> FALSE]
                         ELSE [phase |-> "running", startedAt |-> now, trial |-> reset]]
  /\ UNCHANGED <<lastFailureTime, consecFails, lastFailAt>>

\* The closure is called: everything up to `await operation()`.
\* const now = Date.now(); reset check; fail fast when open; else invoke.
BreakerCall(c) ==
  /\ calls[c].phase # "running"
  /\ LET reset == isOpen /\ RecoveryElapsed(now)
         open  == isOpen /\ ~reset
     IN /\ isOpen' = open
        /\ failures' = IF reset THEN 0 ELSE failures
        /\ calls' = [calls EXCEPT ![c] =
                       IF open
                         THEN [phase |-> "rejected", startedAt |-> now, trial |-> FALSE]
                         ELSE [phase |-> "running", startedAt |-> now, trial |-> reset]]
  /\ UNCHANGED <<lastFailureTime, consecFails, lastFailAt>>

\* `await operation()` resolves: failures = 0; return result.
BreakerOperationResolves(c) ==
  /\ calls[c].phase = "running"
  /\ failures' = 0
  /\ calls' = [calls EXCEPT ![c].phase = "returned", ![c].startedAt = 0]
  /\ consecFails' = 0
  /\ UNCHANGED <<lastFailureTime, isOpen, lastFailAt>>

\* `await operation()` rejects: the catch block. `now` is the value read
\* when the call started (calls[c].startedAt), not the current clock.
BreakerOperationRejects(c) ==
  /\ calls[c].phase = "running"
  /\ failures' = failures + 1
  /\ lastFailureTime' = calls[c].startedAt
  /\ isOpen' = (isOpen \/ failures + 1 >= FailureThreshold)
  /\ calls' = [calls EXCEPT ![c].phase = "threw", ![c].startedAt = 0]
  /\ consecFails' = Min(consecFails + 1, FailureThreshold + 1)
  /\ lastFailAt' = now

\* Time passes.
Tick ==
  /\ now < MaxTime
  /\ now' = now + 1

\* One caller at a time: a call starts only when no other call is in flight.
NoCallInFlight == \A c \in Callers : calls[c].phase # "running"

(***************************************************************************)
(* JavaScript values: numbers, NaN, null, undefined.                       *)
(***************************************************************************)
Num(n) == [t |-> "num", v |-> n]
NaN == [t |-> "nan", v |-> 0]
Null == [t |-> "null", v |-> 0]
Undefined == [t |-> "undefined", v |-> 0]
Str(x) == [t |-> "str", v |-> x]

\* JSON.stringify followed by JSON.parse of a property value: NaN becomes
\* null; an undefined property is dropped, so reading it gives undefined.
JsonValue(x) == IF x.t = "nan" THEN Null ELSE x

\* a || b
OrElse(a, b) ==
  IF \/ a.t \in {"nan", "null", "undefined"}
     \/ (a.t = "num" /\ a.v = 0)
     \/ (a.t = "str" /\ a.v = "")
    THEN b ELSE a

\* a ?? b
Coalesce(a, b) == IF a.t \in {"null", "undefined"} THEN b ELSE a

Abs(x) == IF x.t = "num" /\ x.v < 0 THEN Num(-x.v) ELSE x

(***************************************************************************)
(* models/StockData, models/DividendAnalysis                               *)
(***************************************************************************)
\* new Quote({regularMarketPrice, postMarketPrice, preMarketPrice, currency,
\*            shortName, longName})
Quote(q) ==
  [ price    |-> OrElse(q.regularMarketPrice,
                   OrElse(q.postMarketPrice, OrElse(q.preMarketPrice, Num(0)))),
    currency |-> OrElse(q.currency, Str("USD")),
    name     |-> OrElse(q.shortName, OrElse(q.longName, Str(""))) ]

\* Fundamentals.extractValue applied to a field of the shape {raw: x}:
\* the object is truthy and not a number, so Number(field.raw ?? field).
extractValue(raw) == IF Coalesce(raw, NaN).t = "num" THEN raw ELSE NaN

\* new Fundamentals({OperatingCashFlow: {raw}, ...})
Fundamentals(d) ==
  [ operatingCashFlow  |-> extractValue(d.OperatingCashFlow),
    capitalExpenditure |-> Abs(extractValue(d.CapitalExpenditure)),
    cashDividendsPaid  |-> Abs(extractValue(d.CashDividendsPaid)),
    netIncome          |-> extractValue(d.NetIncome),
    payoutRatio        |-> extractValue(d.payoutRatio) ]

\* new DividendScores({payout, fcf, streak, growth, trend, macd, rsi})
DividendScores(sc) ==
  [ payout |-> sc.payout, fcf |-> sc.fcf, streak |-> sc.streak, growth |-> sc.growth,
    trend |-> sc.trend, macd |-> sc.macd, rsi |-> sc.rsi ]

\* new DividendAnalysis({...})
DividendAnalysis(a) ==
  [ ticker |-> a.ticker, quote |-> a.quote, ttmDividends |-> a.ttmDividends,
    ttmYield |-> a.ttmYield, annualDividends |-> a.annualDividends,
    cagr3 |-> a.cagr3, cagr5 |-> a.cagr5, streak |-> a.streak,
    fundamentals |-> a.fundamentals, safeGrowth |-> a.safeGrowth,
    forwardDividend |-> a.forwardDividend, forwardYield |-> a.forwardYield,
    scores |-> a.scores, totalScore |-> a.totalScore,
    ema |-> a.ema, macd |-> a.macd, rsi |-> a.rsi ]

(***************************************************************************)
(* DatabaseService                                                         *)
(***************************************************************************)
TicksPerHour == 2         \* clock ticks per hour
HoursPerDay == 24

TicksPerDay == HoursPerDay * TicksPerHour

\* Date.getHours() and the calendar day of a clock value
GetHours(t) == (t \div TicksPerHour) % HoursPerDay
DayOf(t) == t \div TicksPerDay

\* ToIntegerOrInfinity(n / d): truncation toward zero
TruncDiv(n, d) == IF n >= 0 THEN n \div d ELSE -((-n) \div d)

\* cutoffTime.setHours(cutoffTime.getHours() - hoursThreshold), with
\* hoursThreshold = thresholdTicks / TicksPerHour hours: setHours keeps the
\* minutes and takes the integer part of its argument.
CutoffTime(t, thresholdTicks) ==
  t + (TruncDiv(GetHours(t) * TicksPerHour - thresholdTicks, TicksPerHour) - GetHours(t))
        * TicksPerHour

\* The `raw.analysis` JSON written by saveAnalysis, as read back.
RawAnalysis(a) ==
  [ ticker |-> a.ticker,
    quote |-> [ price |-> JsonValue(a.quote.price), currency |-> a.quote.currency,
                name |-> a.quote.name ],
    ttmDividends |-> JsonValue(a.ttmDividends),
    ttmYield |-> JsonValue(a.ttmYield),
    annualDividends |-> a.annualDividends,
    cagr3 |-> JsonValue(a.cagr3),
    cagr5 |-> JsonValue(a.cagr5),
    streak |-> JsonValue(a.streak),
    fundamentals |->
      [ operatingCashFlow  |-> JsonValue(a.fundamentals.operatingCashFlow),
        capitalExpenditure |-> JsonValue(a.fundamentals.capitalExpenditure),
        cashDividendsPaid  |-> JsonValue(a.fundamentals.cashDividendsPaid),
        netIncome          |-> JsonValue(a.fundamentals.netIncome),
        payoutRatio        |-> JsonValue(a.fundamentals.payoutRatio) ],
    safeGrowth |-> JsonValue(a.safeGrowth),
    forwardDividend |-> JsonValue(a.forwardDividend),
    forwardYield |-> JsonValue(a.forwardYield),
    scores |-> [ payout |-> JsonValue(a.scores.payout), fcf |-> JsonValue(a.scores.fcf),
                 streak |-> JsonValue(a.scores.streak), growth |-> JsonValue(a.scores.growth),
                 trend |-> JsonValue(a.scores.trend), macd |-> JsonValue(a.scores.macd),
                 rsi |-> JsonValue(a.scores.rsi) ],
    totalScore |-> JsonValue(a.totalScore) ]

\* hydrateAnalysisFromRecord(record), with rawAnalysis = record.raw.analysis
hydrateAnalysisFromRecord(rawAnalysis) ==
  LET quote == Quote([ regularMarketPrice |-> rawAnalysis.quote.price,
                       postMarketPrice |-> Undefined, preMarketPrice |-> Undefined,
                       currency |-> rawAnalysis.quote.currency,
                       shortName |-> rawAnalysis.quote.name, longName |-> Undefined ])
      fundamentals ==
        Fundamentals([ OperatingCashFlow |-> rawAnalysis.fundamentals.operatingCashFlow,
                       CapitalExpenditure |-> rawAnalysis.fundamentals.capitalExpenditure,
                       CashDividendsPaid |-> rawAnalysis.fundamentals.cashDividendsPaid,
                       NetIncome |-> rawAnalysis.fundamentals.netIncome,
                       payoutRatio |-> rawAnalysis.fundamentals.payoutRatio ])
      scores == DividendScores([ payout |-> rawAnalysis.scores.payout,
                                 fcf |-> rawAnalysis.scores.fcf,
                                 streak |-> rawAnalysis.scores.streak,
                                 growth |-> rawAnalysis.scores.growth,
                                 trend |-> Undefined, macd |-> Undefined, rsi |-> Undefined ])
  IN DividendAnalysis(
       [ ticker |-> rawAnalysis.ticker, quote |-> quote,
         ttmDividends |-> rawAnalysis.ttmDividends, ttmYield |-> rawAnalysis.ttmYield,
         annualDividends |-> rawAnalysis.annualDividends,
         cagr3 |-> rawAnalysis.cagr3, cagr5 |-> rawAnalysis.cagr5,
         streak |-> rawAnalysis.streak, fundamentals |-> fundamentals,
         safeGrowth |-> rawAnalysis.safeGrowth,
         forwardDividend |-> rawAnalysis.forwardDividend,
         forwardYield |-> rawAnalysis.forwardYield,
         scores |-> scores, totalScore |-> rawAnalysis.totalScore,
         ema |-> Undefined, macd |-> Undefined, rsi |-> Undefined ])

(***************************************************************************)
(* DatabaseService.createOptionsHash                                       *)
(* An options object is the sequence of its <<key, value>> properties in   *)
(* insertion order; values are small codes.                                *)
(***************************************************************************)
\* Rank of a key in the order Array.prototype.sort() gives (code units).
KeyRank == [minStreak |-> 1, periods |-> 2, provider |-> 3, requiredReturn |-> 4, years |-> 5]

HashBase == 31
HashModulus == 65521

\* Object.keys(options)
ObjectKeys(options) == [i \in DOMAIN options |-> options[i][1]]

ValueOf(options, key) ==
  LET i == CHOOSE i \in DOMAIN options : options[i][1] = key IN options[i][2]

RECURSIVE SortedFrom(_)
SortedFrom(keySet) ==
  IF keySet = {} THEN <<>>
  ELSE LET k == CHOOSE k \in keySet : \A o \in keySet : KeyRank[k] <= KeyRank[o]
       IN <<k>> \o SortedFrom(keySet \ {k})

\* Mutant: the keys are left in insertion order.
UnsortedKeys(keys) == keys

\* Object.keys(options).sort()
SortKeys(keys) == SortedFrom({keys[i] : i \in DOMAIN keys})

\* JSON.stringify(options, replacerArray): the properties named by the
\* replacer array, in the array's order.
Stringify(options, replacer) ==
  [i \in DOMAIN replacer |-> <<replacer[i], ValueOf(options, replacer[i])>>]

\* createHash('md5').update(text).digest('hex').substring(0, 16), modelled
\* as a polynomial digest of the serialized text.
RECURSIVE Digest(_, _)
Digest(text, h) ==
  IF text = <<>> THEN h
  ELSE Digest(Tail(text),
              (h * HashBase + KeyRank[Head(text)[1]] * 7 + Head(text)[2]) % HashModulus)

createOptionsHash(options) ==
  Digest(Stringify(options, SortKeys(ObjectKeys(options))), 7)

NoRecord == [found |-> FALSE]

\* The rows getRecentAnalysis selects: ticker symbol, options_hash and
\* observed_at >= cutoffTime.
RecentRows(rows, symbol, optionsHash, t, thresholdTicks) ==
  { i \in DOMAIN rows :
      /\ rows[i].symbol = symbol
      /\ rows[i].options_hash = optionsHash
      /\ rows[i].observed_at >= CutoffTime(t, thresholdTicks) }

\* getRecentAnalysis: order by observed_at descending, limit 1; null when
\* no row matches (PGRST116).
getRecentAnalysis(rows, symbol, optionsHash, t, thresholdTicks) ==
  LET cand == RecentRows(rows, symbol, optionsHash, t, thresholdTicks)
  IN IF cand = {} THEN NoRecord
     ELSE LET i == CHOOSE i \in cand :
                     \A j \in cand : rows[j].observed_at <= rows[i].observed_at
          IN [found |-> TRUE, row |-> rows[i]]

\* idx_analyses_daily_unique: (ticker_id, options_hash, observed_at::date)
ViolatesDailyUnique(rows, row) ==
  \E i \in DOMAIN rows :
    /\ rows[i].symbol = row.symbol
    /\ rows[i].options_hash = row.options_hash
    /\ DayOf(rows[i].observed_at) = DayOf(row.observed_at)

\* The row saveAnalysis prepares (the columns the model reads).
AnalysisRow(analysis, optionsHash, observedAt) ==
  [ symbol |-> analysis.ticker.v, options_hash |-> optionsHash,
    observed_at |-> observedAt, raw |-> RawAnalysis(analysis) ]

(***************************************************************************)
(* DividendAnalysisService.analyze                                         *)
(***************************************************************************)
NumAnalyses == 2          \* analyze calls made, any of them concurrently
MaxHalfDays == 3          \* the clock advances by half days, this many times

Procs == 1..NumAnalyses
Symbols == {"MSFT"}
Providers == {"yahoo", "av"}
Prices == {100}

HalfDay == (HoursPerDay \div 2) * TicksPerHour
CacheHours == 24          \* getRecentAnalysis(ticker, optionsHash, 24)
YearsDefault == 15
RequiredReturnPct == 9

ProviderCode == [yahoo |-> 1, av |-> 2]

\* const options = { requiredReturn, years, periods: years, provider }
AnalysisOptions(provider) ==
  << <<"requiredReturn", RequiredReturnPct>>, <<"years", YearsDefault>>,
     <<"periods", YearsDefault>>, <<"provider", ProviderCode[provider]>> >>

NoAnalysis == [ticker |-> Str("")]

IdleProc ==
  [ pc |-> "idle", ticker |-> "", provider |-> "yahoo", saveToDb |-> FALSE,
    optionsHash |-> 0, price |-> 0, fund |-> "none",
    analysis |-> NoAnalysis, observedAt |-> 0, result |-> NoAnalysis, events |-> {} ]

\* The Fundamentals object getFundamentals returns: built from the provider's
\* time series, or the empty `new Fundamentals()` when both sources failed.
ProviderFundamentals(fund) ==
  IF fund = "full"
    THEN Fundamentals([ OperatingCashFlow |-> Num(120), CapitalExpenditure |-> Num(-12),
                        CashDividendsPaid |-> Num(-18), NetIncome |-> Num(90),
                        payoutRatio |-> Undefined ])
    ELSE Fundamentals([ OperatingCashFlow |-> Undefined, CapitalExpenditure |-> Undefined,
                        CashDividendsPaid |-> Undefined, NetIncome |-> Undefined,
                        payoutRatio |-> Undefined ])

\* The EMA snapshot: the last EMA20/50/200 of the daily closes, or nulls
\* when the time series is unavailable.
\* (a series is what getTimeSeriesDaily came back with: not ok when the call
\* failed or was not made, else the number of daily closes it holds)
Ema20Period == 20
Ema50Period == 50
Ema200Period == 200

NoSeries == [ok |-> FALSE, len |-> 0]
SeriesOfLength(n) == [ok |-> TRUE, len |-> n]
ShortSeriesLen == 150     \* closes enough for EMA20 and EMA50, not for EMA200
LongSeriesLen == 250      \* closes enough for all three
SeriesOutcomes == {NoSeries} \cup {SeriesOfLength(n) : n \in {ShortSeriesLen, LongSeriesLen}}

\* calculateEMA(closePrices, period) is [] when there are fewer closes than
\* the period; the snapshot then holds null for that EMA.
\* Mutant: EMA200 is reported whatever the length of the series.
EmaDataAnyLength(series) ==
  [ ema20  |-> IF series.ok /\ series.len >= Ema20Period THEN Num(95) ELSE Null,
    ema50  |-> IF series.ok /\ series.len >= Ema50Period THEN Num(90) ELSE Null,
    ema200 |-> IF series.ok THEN Num(80) ELSE Null ]

EmaData(series) ==
  [ ema20  |-> IF series.ok /\ series.len >= Ema20Period THEN Num(95) ELSE Null,
    ema50  |-> IF series.ok /\ series.len >= Ema50Period THEN Num(90) ELSE Null,
    ema200 |-> IF series.ok /\ series.len >= Ema200Period THEN Num(80) ELSE Null ]

\* Mutant: the trend score is not floored at 0.
calculateTrendScoreNoFloor(price, ema) ==
  IF price = 0 \/ ema.ema20.t # "num" \/ ema.ema50.t # "num" \/ ema.ema200.t # "num"
    THEN Num(0)
    ELSE Num((IF price > ema.ema200.v THEN 50 ELSE -20)
               + (IF price > ema.ema50.v THEN 30 ELSE 0)
               + (IF price > ema.ema20.v THEN 20 ELSE 0))

\* ScoreCalculator.calculateTrendScore(price, ema)
calculateTrendScore(price, ema) ==
  IF price = 0 \/ ema.ema20.t # "num" \/ ema.ema50.t # "num" \/ ema.ema200.t # "num"
    THEN Num(0)
    ELSE Num(Max(0, (IF price > ema.ema200.v THEN 50 ELSE -20)
                      + (IF price > ema.ema50.v THEN 30 ELSE 0)
                      + (IF price > ema.ema20.v THEN 20 ELSE 0)))

\* The DividendAnalysis assembled from the acquired data (lines 97-166).
FreshAnalysis(ticker, price, fund, series) ==
  DividendAnalysis(
    [ ticker |-> Str(ticker),
      quote |-> Quote([ regularMarketPrice |-> Num(price), postMarketPrice |-> Undefined,
                        preMarketPrice |-> Undefined, currency |-> Str("USD"),
                        shortName |-> Str("Corp"), longName |-> Undefined ]),
      ttmDividends |-> Num(3), ttmYield |-> Num(3),
      annualDividends |-> Str("series"),
      cagr3 |-> Num(5), cagr5 |-> Null, streak |-> Num(4),
      fundamentals |-> ProviderFundamentals(fund),
      safeGrowth |-> Num(5), forwardDividend |-> Num(3), forwardYield |-> Num(3),
      scores |-> DividendScores(
                   [ payout |-> Num(100), fcf |-> IF fund = "full" THEN Num(100) ELSE Num(0),
                     streak |-> Num(20), growth |-> Num(75),
                     trend |-> calculateTrendScore(price, EmaData(series)),
                     macd |-> Undefined, rsi |-> Undefined ]),
      totalScore |-> Num(60),
      ema |-> EmaData(series),
      macd |-> Undefined, rsi |-> Undefined ])

AnalyzeInit ==
  /\ tickers = {}
  /\ analyses = <<>>
  /\ avAvailable \in BOOLEAN
  /\ procs = [p \in Procs |-> IdleProc]

Note(p, ev) == procs[p].events \cup ev

\* analyze(ticker, years, requiredReturn, saveToDb, forceFresh, provider):
\* lines 39-49, up to the first await.
AnalyzeStart(p, ticker, provider, saveToDb, forceFresh) ==
  /\ procs[p].pc = "idle"
  /\ procs' = [procs EXCEPT ![p] =
       [ IdleProc EXCEPT
           !.pc = IF saveToDb /\ ~forceFresh THEN "cacheLookup" ELSE "quote",
           !.ticker = ticker, !.provider = provider, !.saveToDb = saveToDb,
           !.optionsHash = createOptionsHash(AnalysisOptions(provider)) ]]
  /\ UNCHANGED <<storeVars, avAvailable>>

\* Mutant: a cache hit is ignored and the fresh path is taken.
CacheLookupIgnoresHit(p, fault) ==
  /\ procs[p].pc = "cacheLookup"
  /\ procs' = [procs EXCEPT ![p] =
       [@ EXCEPT !.pc = "quote",
                 !.events = Note(p, IF fault THEN {"readFault"} ELSE {"cacheMiss"})]]
  /\ UNCHANGED <<storeVars, avAvailable>>

\* await DatabaseService.getRecentAnalysis(ticker, optionsHash, 24) settles.
CacheLookupReturns(p, fault) ==
  /\ procs[p].pc = "cacheLookup"
  /\ LET rec == getRecentAnalysis(analyses, procs[p].ticker, procs[p].optionsHash,
                                   now, CacheHours * TicksPerHour)
     IN procs' = [procs EXCEPT ![p] =
          IF fault
            THEN [@ EXCEPT !.pc = "quote", !.events = Note(p, {"readFault"})]
          ELSE IF rec.found
            THEN [@ EXCEPT !.pc = "done", !.events = Note(p, {"cacheHit"}),
                           !.result = hydrateAnalysisFromRecord(rec.row.raw)]
            ELSE [@ EXCEPT !.pc = "quote", !.events = Note(p, {"cacheMiss"})]]
  /\ UNCHANGED <<storeVars, avAvailable>>

\* await this.yahooService.getQuote(ticker) settles.
QuoteReturns(p, ok, price) ==
  /\ procs[p].pc = "quote"
  /\ procs' = [procs EXCEPT ![p] =
       IF ok
         THEN [@ EXCEPT !.pc = IF procs[p].provider = "av" /\ avAvailable
                                 THEN "overview" ELSE "dividends",
                        !.price = price, !.events = Note(p, {"provider"})]
         ELSE [@ EXCEPT !.pc = "failed", !.events = Note(p, {"provider", "quoteFailed"})]]
  /\ UNCHANGED <<storeVars, avAvailable>>

\* await this.alphaVantageService.getCompanyOverview(ticker) settles; a
\* failure is caught, and the rebuilt Quote keeps price, currency and name.
OverviewReturns(p, ok) ==
  /\ procs[p].pc = "overview"
  /\ procs' = [procs EXCEPT ![p] =
       [@ EXCEPT !.pc = "dividends"]]
  /\ UNCHANGED <<storeVars, avAvailable>>

\* What getDividendEvents can come back with: the validated events, or a
\* throw (the chart call failed after its retries; no events; no valid
\* event; fewer than 4 valid events).
DividendOutcomes == {"ok", "chartFailed", "empty", "noneValid", "fewerThan4"}

\* await this.yahooService.getDividendEvents(ticker, years) settles.
DividendsReturn(p, outcome) ==
  /\ procs[p].pc = "dividends"
  /\ procs' = [procs EXCEPT ![p] =
       IF outcome = "ok"
         THEN [@ EXCEPT !.pc = "fundamentals"]
         ELSE [@ EXCEPT !.pc = "failed", !.events = Note(p, {"dividendsFailed"})]]
  /\ UNCHANGED <<storeVars, avAvailable>>

\* Lines 147-179 after the data is in: assemble the analysis, then save or return.
Assembled(p, fund, series, ev) ==
  LET a == FreshAnalysis(procs[p].ticker, procs[p].price, fund, series)
  IN [ procs[p] EXCEPT
         !.fund = fund, !.analysis = a, !.events = Note(p, ev),
         !.pc = IF procs[p].saveToDb THEN "ensureTicker" ELSE "done",
         !.result = IF procs[p].saveToDb THEN NoAnalysis ELSE a ]

\* Mutant: unavailable fundamentals make analyze throw.
FundamentalsReturnThrows(p, fund) ==
  /\ procs[p].pc = "fundamentals"
  /\ procs' = [procs EXCEPT ![p] =
       IF fund = "none"
         THEN [@ EXCEPT !.pc = "failed", !.events = Note(p, {"fundamentalsFailed"})]
       ELSE IF avAvailable
         THEN [@ EXCEPT !.pc = "timeSeries", !.fund = fund]
         ELSE Assembled(p, fund, NoSeries, {})]
  /\ UNCHANGED <<storeVars, avAvailable>>

\* await this.yahooService.getFundamentals(ticker, years) settles; it never
\* throws: with both sources failed it returns `new Fundamentals()`.
FundamentalsReturn(p, fund) ==
  /\ procs[p].pc = "fundamentals"
  /\ procs' = [procs EXCEPT ![p] =
       IF avAvailable
         THEN [@ EXCEPT !.pc = "timeSeries", !.fund = fund,
                        !.events = Note(p, IF fund = "none" THEN {"fundamentalsFailed"} ELSE {})]
         ELSE Assembled(p, fund, NoSeries, IF fund = "none" THEN {"fundamentalsFailed"} ELSE {})]
  /\ UNCHANGED <<storeVars, avAvailable>>

\* What the history records about the series that came back.
SeriesEvents(series) ==
  IF ~series.ok THEN {"seriesFailed"}
  ELSE IF series.len < Ema200Period THEN {"seriesShort"} ELSE {}

\* Mutant: a failed series request makes analyze throw.
TimeSeriesReturnsThrows(p, series) ==
  /\ procs[p].pc = "timeSeries"
  /\ procs' = [procs EXCEPT ![p] =
       IF series.ok
         THEN Assembled(p, procs[p].fund, series, SeriesEvents(series))
         ELSE [@ EXCEPT !.pc = "failed", !.events = Note(p, SeriesEvents(series))]]
  /\ UNCHANGED <<storeVars, avAvailable>>

\* await this.alphaVantageService.getTimeSeriesDaily(ticker, 'full') settles;
\* a failure is caught and leaves the EMA snapshot null.
TimeSeriesReturns(p, series) ==
  /\ procs[p].pc = "timeSeries"
  /\ procs' = [procs EXCEPT ![p] =
       Assembled(p, procs[p].fund, series, SeriesEvents(series))]
  /\ UNCHANGED <<storeVars, avAvailable>>

\* Mutant: a failed save is rethrown.
SaveFailedRethrows(p, ev) ==
  [procs[p] EXCEPT !.pc = "failed", !.events = Note(p, ev)]

\* saveAnalysis failed: analyze catches, warns and returns the analysis.
SaveFailed(p, ev) ==
  [procs[p] EXCEPT !.pc = "done", !.result = procs[p].analysis, !.events = Note(p, ev)]

\* ensureTicker: the select on `tickers` settles.  When the ticker exists
\* saveAnalysis goes on and builds the record (observed_at = new Date()).
EnsureTickerSelectReturns(p, fault) ==
  /\ procs[p].pc = "ensureTicker"
  /\ procs' = [procs EXCEPT ![p] =
       IF fault THEN SaveFailed(p, {"writeFault"})
       ELSE IF procs[p].ticker \in tickers
         THEN [@ EXCEPT !.pc = "insertAnalysis", !.observedAt = now]
         ELSE [@ EXCEPT !.pc = "insertTicker"]]
  /\ UNCHANGED <<storeVars, avAvailable>>

\* ensureTicker: the insert into `tickers` settles (symbol is UNIQUE).
InsertTickerReturns(p, fault) ==
  /\ procs[p].pc = "insertTicker"
  /\ IF fault
       THEN /\ procs' = [procs EXCEPT ![p] = SaveFailed(p, {"writeFault"})]
            /\ UNCHANGED tickers
     ELSE IF procs[p].ticker \in tickers
       THEN /\ procs' = [procs EXCEPT ![p] = SaveFailed(p, {"tickerConflict"})]
            /\ UNCHANGED tickers
       ELSE /\ procs' = [procs EXCEPT ![p] =
                  [@ EXCEPT !.pc = "insertAnalysis", !.observedAt = now]]
            /\ tickers' = tickers \cup {procs[p].ticker}
  /\ UNCHANGED <<analyses, avAvailable>>

\* saveAnalysis: the insert into `analyses` settles.
InsertAnalysisReturns(p, fault) ==
  /\ procs[p].pc = "insertAnalysis"
  /\ LET row == AnalysisRow(procs[p].analysis, procs[p].optionsHash, procs[p].observedAt)
     IN IF fault
          THEN /\ procs' = [procs EXCEPT ![p] = SaveFailed(p, {"writeFault"})]
               /\ UNCHANGED analyses
        ELSE IF ViolatesDailyUnique(analyses, row)
          THEN /\ procs' = [procs EXCEPT ![p] = SaveFailed(p, {"dailyConflict"})]
               /\ UNCHANGED analyses
          ELSE /\ procs' = [procs EXCEPT ![p] =
                     [@ EXCEPT !.pc = "done", !.result = procs[p].analysis,
                               !.events = Note(p, {"stored"})]]
               /\ analyses' = Append(analyses, row)
  /\ UNCHANGED <<tickers, avAvailable>>

\* Half a day passes.
AdvanceClock ==
  /\ now < MaxHalfDays * HalfDay
  /\ now' = now + HalfDay

(***************************************************************************)
(* The cache store used by one caller at a time                            *)
(***************************************************************************)
MaxThresholdTicks == 3    \* largest hoursThreshold asked, in clock ticks

\* await DatabaseService.saveAnalysis(analysis, options), run to completion:
\* ensureTicker, then the insert, which the daily unique index may reject.
saveAnalysis(analysis, optionsHash) ==
  LET row == AnalysisRow(analysis, optionsHash, now)
  IN /\ tickers' = tickers \cup {row.symbol}
     /\ analyses' = IF ViolatesDailyUnique(analyses, row)
                      THEN analyses ELSE Append(analyses, row)

\* observed_at of the newest stored row of (symbol, optionsHash); -1 if none.
NewestObservedAt(rows, symbol, optionsHash) ==
  LET m == { i \in DOMAIN rows :
               rows[i].symbol = symbol /\ rows[i].options_hash = optionsHash }
  IN IF m = {} THEN -1
     ELSE rows[CHOOSE i \in m : \A j \in m : rows[j].observed_at <= rows[i].observed_at]
            .observed_at

NoQuery ==
  [ asked |-> FALSE, at |-> 0, thresholdTicks |-> 0, newest |-> -1,
    found |-> FALSE, observed_at |-> -1 ]

\* await DatabaseService.getRecentAnalysis(symbol, optionsHash, hoursThreshold),
\* with hoursThreshold = thresholdTicks / TicksPerHour; the answer is kept
\* in `query` together with what the store held.
GetRecent(symbol, optionsHash, thresholdTicks) ==
  LET rec == getRecentAnalysis(analyses, symbol, optionsHash, now, thresholdTicks)
  IN query' = [ asked |-> TRUE, at |-> now, thresholdTicks |-> thresholdTicks,
                newest |-> NewestObservedAt(analyses, symbol, optionsHash),
                found |-> rec.found,
                observed_at |-> IF rec.found THEN rec.row.observed_at ELSE -1 ]

(***************************************************************************)
(* Pure functions applied to drawn inputs                                  *)
(***************************************************************************)
MaxOptionKeys == 3        \* most properties of an options object
MaxOptionValue == 2       \* property values are 1..MaxOptionValue

OptionKeys == DOMAIN KeyRank

\* The insertion orders of a set of keys.
Orderings(S) ==
  { o \in [1..Cardinality(S) -> S] : \A i, j \in DOMAIN o : o[i] = o[j] => i = j }

\* The options object with the properties `val`, inserted in the order `o`.
OptionsObject(o, val) == [i \in DOMAIN o |-> <<o[i], val[o[i]]>>]

\* Freshly computed analyses: FreshAnalysis over what the calculators yield
\* (cagr3/cagr5 are null with fewer than 3/5 years; the streak can be 0).
FreshAnalyses ==
  { [ FreshAnalysis("MSFT", price, fund, series)
        EXCEPT !.cagr3 = c3, !.cagr5 = c5, !.streak = st ] :
      price \in {85, 100}, fund \in {"full", "none"}, series \in SeriesOutcomes,
      c3 \in {Num(5), Null}, c5 \in {Num(4), Null}, st \in {Num(0), Num(4)} }

\* const h = createOptionsHash(a), createOptionsHash(b)
ComputeHashes ==
  /\ pout = <<>>
  /\ pout' = <<createOptionsHash(pin[1]), createOptionsHash(pin[2])>>
  /\ UNCHANGED pin

\* saveAnalysis writes raw.analysis; the record read back is rehydrated.
SaveAndHydrate ==
  /\ pout = <<>>
  /\ pout' = <<hydrateAnalysisFromRecord(RawAnalysis(pin[1]))>>
  /\ UNCHANGED pin

(***************************************************************************)
(* handleYahooError / handleAlphaVantageError                              *)
(* A caught error is an error object together with the set of substrings   *)
(* the handlers look for that its message contains.                        *)
(***************************************************************************)
MessageMarks == {"404", "not found", "429", "rate limit", "timeout", "Invalid API call"}

Caught(e, marks) == [err |-> e, marks |-> marks]

\* code.startsWith(prefix)
StartsWith(code, prefix) ==
  Len(code) >= Len(prefix) /\ SubSeq(code, 1, Len(prefix)) = prefix

\* Errors whose message is given by their constructor.
FixedMessageErrors ==
  { Caught(TickerNotFoundError, {"not found"}),
    Caught(InsufficientDataError, {}),
    Caught(DataQualityError("QUOTE"), {}),
    Caught(DataQualityError("DIVIDENDS"), {}),
    Caught(RateLimitError, {"rate limit"}),
    Caught(RetryFailedError, {}) }

\* Errors built with a free message: NetworkError(`HTTP ${status}: ...`),
\* DataSourceError(message, source, flag) and the errors of the client
\* libraries (with or without a system error code).
FreeMessageErrors ==
  { Caught(e, marks) :
      e \in { NetworkError,
              DataSourceError("YAHOO", TRUE), DataSourceError("YAHOO", FALSE),
              DataSourceError("ALPHAVANTAGE", TRUE), DataSourceError("ALPHAVANTAGE", FALSE),
              PlainError("none", FALSE), PlainError("ENOTFOUND", TRUE),
              PlainError("ECONNREFUSED", TRUE) },
      marks \in SUBSET MessageMarks }

CaughtErrors == FixedMessageErrors \cup FreeMessageErrors

\* The branches the two handlers share, after their first test.
handleProviderError(error, source) ==
  IF error.marks \cap {"429", "rate limit"} # {} THEN RateLimitError
  ELSE IF error.err.code \in {"ENOTFOUND", "ECONNREFUSED"} THEN NetworkError
  ELSE IF "timeout" \in error.marks THEN NetworkError
  ELSE IF \/ StartsWith(error.err.code, "VALIDATION_")
          \/ StartsWith(error.err.code, "DATA_QUALITY_")
          \/ StartsWith(error.err.code, "INSUFFICIENT_")
    THEN error.err
    ELSE DataSourceError(source, TRUE)

\* YahooFinanceService.handleYahooError(error, operation, ticker)
handleYahooError(error) ==
  IF error.marks \cap {"404", "not found"} # {} THEN TickerNotFoundError
  ELSE handleProviderError(error, "YAHOO")

\* AlphaVantageService.handleAlphaVantageError(error, operation, symbol)
handleAlphaVantageError(error) ==
  IF error.marks \cap {"Invalid API call", "not found"} # {} THEN TickerNotFoundError
  ELSE handleProviderError(error, "ALPHAVANTAGE")

\* catch (error) { throw this.handleYahooError(...) / handleAlphaVantageError(...) }
HandleError ==
  /\ pout = <<>>
  /\ pout' = << IF pin[1] = "yahoo" THEN handleYahooError(pin[2])
                                    ELSE handleAlphaVantageError(pin[2]) >>
  /\ UNCHANGED pin

(***************************************************************************)
(* YahooFinanceService.getQuote as analyze calls it: the provider          *)
(* operation wrapped in withRetry only.  `calls` holds the state of each    *)
(* caller's getQuote; consecFails / lastFailAt record the operation's       *)
(* consecutive failures, over all callers and tickers.                      *)
(***************************************************************************)
\* let quote = await this.yahooService.getQuote(ticker): the provider is invoked.
GetQuoteCall(c) ==
  /\ calls[c].phase # "running"
  /\ calls' = [calls EXCEPT ![c] = [phase |-> "running", startedAt |-> now, trial |-> FALSE]]
  /\ UNCHANGED <<failures, lastFailureTime, isOpen, consecFails, lastFailAt>>

\* getQuote returns the validated quote.
GetQuoteResolves(c) ==
  /\ calls[c].phase = "running"
  /\ calls' = [calls EXCEPT ![c].phase = "returned", ![c].startedAt = 0]
  /\ consecFails' = 0
  /\ UNCHANGED <<failures, lastFailureTime, isOpen, lastFailAt>>

\* getQuote throws handleYahooError(error) after the retry sequence.
GetQuoteRejects(c) ==
  /\ calls[c].phase = "running"
  /\ calls' = [calls EXCEPT ![c].phase = "threw", ![c].startedAt = 0]
  /\ consecFails' = Min(consecFails + 1, FailureThreshold + 1)
  /\ lastFailAt' = now
  /\ UNCHANGED <<failures, lastFailureTime, isOpen>>

(***************************************************************************)
(* DividendCalculator.calculateDividendStreak.  An annual series is a       *)
(* sequence of <<year, total>> pairs, one per year (annualizeDividends      *)
(* builds it from a Map keyed by year); totals are sums of valid event       *)
(* amounts, hence positive, and are counted in cents.                        *)
(***************************************************************************)
MaxSeriesLen == 4         \* most years in an annual series
FirstYear == 2019
SeriesYears == FirstYear .. (FirstYear + MaxSeriesLen - 1)
AnnualTotals == {50, 95, 96, 100}
DeclineKeepPct == 98      \* current >= previous * 0.98
NoiseDeclinePct == 5      \* decline < 0.05

\* every annual series over SeriesYears, in every order of presentation
AnnualSeries ==
  UNION {{sq \in [1..n -> SeriesYears \X AnnualTotals] :
            \A i, j \in 1..n : i # j => sq[i][1] # sq[j][1]} : n \in 0..MaxSeriesLen}

\* the series with the entry e put at its place by year
RECURSIVE InsertByYear(_, _)
InsertByYear(e, sorted) ==
  IF sorted = <<>> THEN <<e>>
  ELSE IF e[1] - Head(sorted)[1] < 0 THEN <<e>> \o sorted
  ELSE <<Head(sorted)>> \o InsertByYear(e, Tail(sorted))

\* a series left in the order it was presented in
RECURSIVE KeepOrder(_)
KeepOrder(series) ==
  IF series = <<>> THEN <<>> ELSE <<Head(series)>> \o KeepOrder(Tail(series))

\* annualSeries.slice().sort((a, b) => a[0] - b[0])
RECURSIVE SortByYear(_)
SortByYear(series) ==
  IF series = <<>> THEN <<>> ELSE InsertByYear(Head(series), SortByYear(Tail(series)))

\* Mutant: a decline of any size is forgiven when the next year recovers.
RECURSIVE StreakLoopAnyDecline(_, _, _)
StreakLoopAnyDecline(sorted, i, streak) ==
  IF i < 2 THEN streak
  ELSE LET current == sorted[i][2]
           previous == sorted[i - 1][2]
       IN IF 100 * current >= DeclineKeepPct * previous
            THEN StreakLoopAnyDecline(sorted, i - 1, streak + 1)
          ELSE IF /\ i < Len(sorted)
                  /\ 100 * sorted[i + 1][2] >= DeclineKeepPct * previous
            THEN StreakLoopAnyDecline(sorted, i - 1, streak + 1)
          ELSE streak

\* the loop of calculateDividendStreak from index i down, with `streak` so far
RECURSIVE StreakLoop(_, _, _)
StreakLoop(sorted, i, streak) ==
  IF i < 2 THEN streak
  ELSE LET current == sorted[i][2]
           previous == sorted[i - 1][2]
       IN IF 100 * current >= DeclineKeepPct * previous
            THEN StreakLoop(sorted, i - 1, streak + 1)
          ELSE IF /\ 100 * (previous - current) < NoiseDeclinePct * previous
                  /\ i < Len(sorted)
                  /\ 100 * sorted[i + 1][2] >= DeclineKeepPct * previous
            THEN StreakLoop(sorted, i - 1, streak + 1)
          ELSE streak

calculateDividendStreak(annualSeries) ==
  LET sorted == SortByYear(annualSeries)
  IN StreakLoop(sorted, Len(sorted), 0)

\* rawStreak = DividendCalculator.calculateDividendStreak(annualDividends)
ComputeStreak ==
  /\ pout = <<>>
  /\ pout' = << calculateDividendStreak(pin[1]) >>
  /\ UNCHANGED pin

(***************************************************************************)
(* DividendEliteDetector: the reference table (three of its rows) and the  *)
(* validation and adjustment of a calculated streak.                        *)
(***************************************************************************)
MaxStreak == 30           \* largest calculated streak

\* rows of DIVIDEND_KINGS and DIVIDEND_ARISTOCRATS
ALL_ELITE ==
  { [ticker |-> "KO",  yearsOfIncreases |-> 61, category |-> "king"],
    [ticker |-> "CHD", yearsOfIncreases |-> 27, category |-> "aristocrat"],
    [ticker |-> "GPC", yearsOfIncreases |-> 67, category |-> "aristocrat"] }

EliteInputs == {"KO", "CHD", "GPC", "MSFT"}

NoElite == [ticker |-> "", yearsOfIncreases |-> 0, category |-> "none"]

isKnownElite(ticker) ==
  IF \E stock \in ALL_ELITE : stock.ticker = ticker
    THEN CHOOSE stock \in ALL_ELITE : stock.ticker = ticker
    ELSE NoElite

\* stock ? stock.yearsOfIncreases : null, null being Null
getExpectedStreak(ticker) ==
  LET stock == isKnownElite(ticker)
  IN IF stock # NoElite THEN Num(stock.yearsOfIncreases) ELSE Null

\* ratio = calculatedStreak / expectedStreak compared with 0.8 and 0.5
validateStreak(ticker, calculatedStreak) ==
  LET expectedStreak == getExpectedStreak(ticker)
  IN IF expectedStreak = Null \/ expectedStreak = Num(0)
       THEN [isValid |-> TRUE, expectedStreak |-> Undefined,
             confidence |-> "high", warning |-> FALSE]
     ELSE IF 10 * calculatedStreak >= 8 * expectedStreak.v
       THEN [isValid |-> TRUE, expectedStreak |-> expectedStreak,
             confidence |-> "high", warning |-> FALSE]
     ELSE IF 10 * calculatedStreak >= 5 * expectedStreak.v
       THEN [isValid |-> TRUE, expectedStreak |-> expectedStreak,
             confidence |-> "medium", warning |-> TRUE]
     ELSE IF calculatedStreak >= 10
       THEN [isValid |-> TRUE, expectedStreak |-> expectedStreak,
             confidence |-> "low", warning |-> TRUE]
     ELSE [isValid |-> FALSE, expectedStreak |-> expectedStreak,
           confidence |-> "low", warning |-> TRUE]

\* Math.round of a number of tenths
RoundTenths(x) == (x + 5) \div 10

\* Mutant: the estimate ignores the calculated streak.
conservativeEstimateOfExpected(calculatedStreak, expectedStreak) ==
  Min(7 * expectedStreak, 250)

\* Math.max(calculatedStreak, Math.min(expectedStreak * 0.7, 25)), in tenths
conservativeEstimate(calculatedStreak, expectedStreak) ==
  Max(10 * calculatedStreak, Min(7 * expectedStreak, 250))

getAdjustedStreak(ticker, calculatedStreak) ==
  LET validation == validateStreak(ticker, calculatedStreak)
  IN IF validation.expectedStreak = Undefined \/ validation.confidence = "high"
       THEN [adjustedStreak |-> calculatedStreak, adjustment |-> "none"]
     ELSE IF validation.confidence = "medium"
       THEN [adjustedStreak |-> calculatedStreak, adjustment |-> "minor"]
     ELSE [adjustedStreak |->
             RoundTenths(conservativeEstimate(calculatedStreak,
                                              validation.expectedStreak.v)),
           adjustment |-> "major"]

\* analyze, lines 111-115: validate the raw streak, use the adjusted one
AdjustStreak ==
  /\ pout = <<>>
  /\ pout' = << validateStreak(pin[1], pin[2]),
                getAdjustedStreak(pin[1], pin[2]).adjustedStreak >>
  /\ UNCHANGED pin

(***************************************************************************)
(* Fundamentals getters, clamp and DividendCalculator.calculateSafeGrowth. *)
(* Rates and ratios are counted in thousandths: 0.8 is 800, -0.10 is -100. *)
(***************************************************************************)
PerMille == 1000
MaxGrowthInputs == 3      \* finite growth rates tried for each of cagr5, cagr3

isFinite(x) == x.t = "num"

\* a / b in thousandths, b # 0
Ratio(a, b) ==
  IF b > 0 THEN (PerMille * a) \div b ELSE 0 - ((PerMille * a) \div (0 - b))

\* get freeCashFlow()
freeCashFlow(f) ==
  IF isFinite(f.operatingCashFlow) /\ isFinite(f.capitalExpenditure)
    THEN Num(f.operatingCashFlow.v - f.capitalExpenditure.v)
    ELSE NaN

\* get fcfPayoutRatio()
fcfPayoutRatio(f) ==
  LET fcf == freeCashFlow(f)
  IN IF isFinite(f.cashDividendsPaid) /\ isFinite(fcf) /\ fcf.v # 0
       THEN Num(Ratio(f.cashDividendsPaid.v, fcf.v))
       ELSE NaN

\* get epsPayoutRatio()
epsPayoutRatio(f) ==
  IF isFinite(f.payoutRatio) THEN f.payoutRatio
  ELSE IF isFinite(f.cashDividendsPaid) /\ isFinite(f.netIncome) /\ f.netIncome.v # 0
    THEN Num(Ratio(f.cashDividendsPaid.v, Abs(f.netIncome).v))
  ELSE NaN

\* Math.min and Math.max: NaN when either argument is NaN
MathMin(a, b) == IF isFinite(a) /\ isFinite(b) THEN Num(Min(a.v, b.v)) ELSE NaN
MathMax(a, b) == IF isFinite(a) /\ isFinite(b) THEN Num(Max(a.v, b.v)) ELSE NaN

\* clamp = (x, lo, hi) => Math.min(hi, Math.max(lo, x))
clamp(x, lo, hi) == MathMin(hi, MathMax(lo, x))

SafeGrowthFloor == -100   \* -0.10
SafeGrowthCap == 150      \* 0.15
EpsPayoutLimit == 800     \* 0.8
FcfPayoutLimit == 1000    \* 1.0
MinSafeStreak == 3

\* Mutant: the streak is not part of the safety test.
calculateSafeGrowthNoStreakTest(cagr5, cagr3, fundamentals, streak) ==
  LET growthBase == Coalesce(Coalesce(cagr5, cagr3), Num(0))
      safeGrowth == clamp(growthBase, Num(SafeGrowthFloor), Num(SafeGrowthCap))
      eps == epsPayoutRatio(fundamentals)
      fcf == fcfPayoutRatio(fundamentals)
  IN IF \/ (isFinite(eps) /\ eps.v > EpsPayoutLimit)
        \/ (isFinite(fcf) /\ fcf.v > FcfPayoutLimit)
       THEN MathMin(safeGrowth, Num(0))
       ELSE safeGrowth

calculateSafeGrowth(cagr5, cagr3, fundamentals, streak) ==
  LET growthBase == Coalesce(Coalesce(cagr5, cagr3), Num(0))
      safeGrowth == clamp(growthBase, Num(SafeGrowthFloor), Num(SafeGrowthCap))
      eps == epsPayoutRatio(fundamentals)
      fcf == fcfPayoutRatio(fundamentals)
  IN IF \/ (isFinite(eps) /\ eps.v > EpsPayoutLimit)
        \/ (isFinite(fcf) /\ fcf.v > FcfPayoutLimit)
        \/ streak < MinSafeStreak
       THEN MathMin(safeGrowth, Num(0))
       ELSE safeGrowth

\* growth rates handed in as cagr5 / cagr3: number | null
GrowthInputs == {Null, NaN} \cup {Num(150 * k - 200) : k \in 1..MaxGrowthInputs}

\* provider figures the Fundamentals are built from
FundamentalsInputs ==
  { Fundamentals([ OperatingCashFlow |-> ocf, CapitalExpenditure |-> Num(-200),
                   CashDividendsPaid |-> div, NetIncome |-> ni, payoutRatio |-> pr ]) :
      ocf \in {Undefined, Num(1200)},
      div \in {Undefined, Num(-500), Num(-900), Num(-1100)},
      ni \in {Undefined, Num(0), Num(1000), Num(-1000)},
      pr \in {Undefined, Num(850)} }

\* safeGrowth = DividendCalculator.calculateSafeGrowth(cagr5, cagr3, fundamentals, streak)
ComputeSafeGrowth ==
  /\ pout = <<>>
  /\ pout' = << calculateSafeGrowth(pin[1], pin[2], pin[3], pin[4]) >>
  /\ UNCHANGED pin

(***************************************************************************)
(* DividendCalculator.calculateGordonGrowthModel.  Money is counted in     *)
(* cents, rates in thousandths; the value returned is kept together with   *)
(* the divisor it was computed with.                                        *)
(***************************************************************************)
MaxReturnSteps == 6       \* required returns tried: multiples of 30 thousandths
ConservativeFloor == -50  \* -0.05
ConservativeCap == 60     \* 0.06

NoValue == [value |-> Null, divisor |-> Null]

\* Math.max(-0.05, Math.min(0.06, safeGrowth))
conservativeGrowth(safeGrowth) ==
  MathMax(Num(ConservativeFloor), MathMin(Num(ConservativeCap), safeGrowth))

\* !price
Falsy(x) == x.t \in {"nan", "null", "undefined"} \/ (x.t = "num" /\ x.v = 0)

\* forwardDividend / divisor: a quotient, or Infinity / NaN on a zero divisor
Divide(a, b) == IF b = 0 THEN NaN ELSE Num(Ratio(a, b))

\* Mutant: a required return equal to the growth rate is accepted too.
calculateGordonGrowthModelNotStrict(forwardDividend, price, requiredReturn, safeGrowth) ==
  IF Falsy(price) \/ ~isFinite(forwardDividend) THEN NoValue
  ELSE LET g == conservativeGrowth(safeGrowth)
       IN IF isFinite(requiredReturn) /\ isFinite(g) /\ requiredReturn.v >= g.v
            THEN [value |-> Divide(forwardDividend.v, requiredReturn.v - g.v),
                  divisor |-> Num(requiredReturn.v - g.v)]
            ELSE NoValue

calculateGordonGrowthModel(forwardDividend, price, requiredReturn, safeGrowth) ==
  IF Falsy(price) \/ ~isFinite(forwardDividend) THEN NoValue
  ELSE LET g == conservativeGrowth(safeGrowth)
       IN IF isFinite(requiredReturn) /\ isFinite(g) /\ requiredReturn.v > g.v
            THEN [value |-> Divide(forwardDividend.v, requiredReturn.v - g.v),
                  divisor |-> Num(requiredReturn.v - g.v)]
            ELSE NoValue

RequiredReturns == {NaN} \cup {Num(30 * k - 60) : k \in 0..MaxReturnSteps}
SafeGrowths == {NaN, Num(SafeGrowthFloor), Num(ConservativeFloor), Num(0), Num(30),
                Num(ConservativeCap), Num(SafeGrowthCap)}
ForwardDividends == {NaN, Num(0), Num(200)}
QuotePrices == {Num(0), Num(10000), Undefined}

\* ddmPrice = DividendCalculator.calculateGordonGrowthModel(forwardDividend,
\*   quote.price, requiredReturn, safeGrowth)
ComputeGordonGrowth ==
  /\ pout = <<>>
  /\ pout' = << calculateGordonGrowthModel(pin[1], pin[2], pin[3], pin[4]) >>
  /\ UNCHANGED pin

(***************************************************************************)
(* ScoreCalculator (packages/core): the seven sub-scores and the total.    *)
(* Scores are counted in hundredths of a point (100 points = 10000),       *)
(* ratios and rates in thousandths, MACD and RSI figures in hundredths.    *)
(***************************************************************************)
Centi == 100              \* hundredths in one point
FullScore == 100 * Centi

Infinity == [t |-> "inf", v |-> 0]

\* get fcfCoverage()
fcfCoverage(f) ==
  LET fcf == freeCashFlow(f)
  IN IF isFinite(f.cashDividendsPaid) /\ isFinite(fcf) /\ f.cashDividendsPaid.v > 0
       THEN Num(Ratio(fcf.v, f.cashDividendsPaid.v))
     ELSE IF f.cashDividendsPaid = Num(0) THEN Infinity
     ELSE NaN

\* (1 - (payoutRatio - 0.6) / 0.4) * 100 = (1000 - r) / 4 points
calculatePayoutScore(payoutRatio) ==
  IF ~isFinite(payoutRatio) \/ payoutRatio.v <= 0 THEN Num(FullScore)
  ELSE IF payoutRatio.v <= 600 THEN Num(FullScore)
  ELSE IF payoutRatio.v >= 1000 THEN Num(0)
  ELSE Num(25 * (1000 - payoutRatio.v))

\* clamp(coverage / 2, 0, 1) * 100 = clamp(c, 0, 2000) / 20 points
calculateFCFCoverageScore(coverage, payoutRatio) ==
  IF ~isFinite(coverage)
    THEN IF isFinite(payoutRatio) /\ payoutRatio.v <= 600 THEN Num(50 * Centi) ELSE Num(0)
  ELSE IF coverage.v >= 2000 THEN Num(FullScore)
  ELSE IF coverage.v <= 0 THEN Num(0)
  ELSE Num(5 * clamp(coverage, Num(0), Num(2000)).v)

\* clamp(streak / 20, 0, 1) * 100 = 5 * clamp(streak, 0, 20) points
calculateStreakScore(streak) ==
  LET x == clamp(streak, Num(0), Num(20))
  IN IF isFinite(x) THEN Num(5 * Centi * x.v) ELSE NaN

\* clamp((growthRate + 0.10) / 0.20, 0, 1) * 100 = clamp(g + 100, 0, 200) / 2 points
calculateGrowthScore(growthRate) ==
  LET x == clamp(IF isFinite(growthRate) THEN Num(growthRate.v + 100) ELSE NaN,
                 Num(0), Num(200))
  IN IF isFinite(x) THEN Num(50 * x.v) ELSE NaN

NoMacd == [macdLine |-> Null, signalLine |-> Null, histogram |-> Null]

calculateMACDScore(macd) ==
  IF macd.macdLine = Null \/ macd.signalLine = Null \/ macd.histogram = Null
    THEN Num(50 * Centi)
  ELSE LET m == macd.macdLine.v
           sg == macd.signalLine.v
           h == macd.histogram.v
           cross == IF m > sg THEN Min(30 * Centi, (m - sg) * 15)
                              ELSE 0 - Min(30 * Centi, (sg - m) * 15)
           momentum == IF h > 0 THEN Min(20 * Centi, h * 10)
                                ELSE 0 - Min(20 * Centi, (IF h < 0 THEN 0 - h ELSE h) * 10)
           position == IF m > 0 THEN Min(10 * Centi, m * 5)
                                ELSE 0 - Min(10 * Centi, (IF m < 0 THEN 0 - m ELSE m) * 5)
       IN Num(Max(0, Min(FullScore, 50 * Centi + cross + momentum + position)))

NoRsi == [rsi |-> Null, period |-> 14]

calculateRSIScore(rsi) ==
  IF rsi.rsi = Null THEN Num(50 * Centi)
  ELSE LET rsiValue == rsi.rsi
           score ==
             IF ~isFinite(rsiValue) THEN 50
             ELSE IF rsiValue.v >= 2000 /\ rsiValue.v <= 8000
               THEN IF rsiValue.v >= 4000 /\ rsiValue.v <= 6000 THEN 100
                    ELSE IF rsiValue.v >= 3000 /\ rsiValue.v <= 7000 THEN 85
                    ELSE 70
             ELSE IF rsiValue.v > 8000
               THEN IF rsiValue.v > 9000 THEN 10 ELSE 30
             ELSE IF rsiValue.v < 1000 THEN 20 ELSE 40
       IN Num(Max(0, Min(100, score)) * Centi)

\* ScoreCalculator.calculateDividendScores; quote.price in whole units, the
\* same as the EMA figures
calculateDividendScores(fundamentals, streak, safeGrowth, price, ema, macd, rsi) ==
  DividendScores(
    [ payout |-> calculatePayoutScore(epsPayoutRatio(fundamentals)),
      fcf    |-> calculateFCFCoverageScore(fcfCoverage(fundamentals),
                                           epsPayoutRatio(fundamentals)),
      streak |-> calculateStreakScore(streak),
      growth |-> calculateGrowthScore(safeGrowth),
      trend  |-> LET t == calculateTrendScore(price, ema) IN Num(Centi * t.v),
      macd   |-> calculateMACDScore(macd),
      rsi    |-> calculateRSIScore(rsi) ])

\* Math.round(0.25 payout + 0.25 fcf + 0.17 streak + 0.16 growth
\*            + 0.07 trend + 0.06 macd + 0.04 rsi), in whole points
calculateTotalScore(scores) ==
  IF \A k \in DOMAIN scores : isFinite(scores[k])
    THEN Num((25 * scores.payout.v + 25 * scores.fcf.v + 17 * scores.streak.v
              + 16 * scores.growth.v + 7 * scores.trend.v + 6 * scores.macd.v
              + 4 * scores.rsi.v + 50 * Centi) \div (100 * Centi))
    ELSE NaN

\* inputs of the score computation
ScoreFundamentals ==
  { Fundamentals([ OperatingCashFlow |-> ocf, CapitalExpenditure |-> Num(-200),
                   CashDividendsPaid |-> div, NetIncome |-> Num(1000), payoutRatio |-> pr ]) :
      ocf \in {Undefined, Num(1200), Num(100), Num(3200)},
      div \in {Undefined, Num(0), Num(-750), Num(-1200)},
      pr \in {Undefined, Num(700)} }
ScoreStreaks == {Num(0), Num(4), Num(20), Num(MaxStreak)}
ScoreGrowths == {Num(SafeGrowthFloor), Num(0), Num(37), Num(SafeGrowthCap)}
ScorePrices == {0, 70, 100}
MacdInputs ==
  { NoMacd,
    [macdLine |-> Num(500), signalLine |-> Num(100), histogram |-> Num(400)],
    [macdLine |-> Num(-500), signalLine |-> Num(-100), histogram |-> Num(-400)],
    [macdLine |-> Num(40), signalLine |-> Num(55), histogram |-> Num(-15)] }
RsiInputs == { [rsi |-> r, period |-> 14] : r \in {Null, Num(500), Num(5000), Num(9500)} }

\* analyze: the EMA snapshot of the close-price series, then
\* scores = calculateDividendScores(...); totalScore = calculateTotalScore(scores)
ComputeScores ==
  /\ pout = <<>>
  /\ LET ema == EmaData(pin[5])
         scores == calculateDividendScores(pin[1], pin[2], pin[3], pin[4], ema,
                                            pin[6], pin[7])
     IN pout' = << scores, calculateTotalScore(scores), ema >>
  /\ UNCHANGED pin

(***************************************************************************)
(* Specifications                                                          *)
(***************************************************************************)
PureIdle == pin = <<>> /\ pout = <<>>
AnalyzeIdle == AnalyzeInit /\ avAvailable = FALSE
QueryIdle == query = NoQuery

InitRetry == now = 0 /\ RetryInit /\ BreakerInit /\ AnalyzeIdle /\ QueryIdle /\ PureIdle

NextRetry ==
  \/ \E cfg \in ConfigNames : withRetry(cfg) /\ UNCHANGED <<now, breakerVars, storeVars, analyzeVars, query, pureVars>>
  \/ \E v \in OperationValues : OperationResolves(v) /\ UNCHANGED <<now, breakerVars, storeVars, analyzeVars, query, pureVars>>
  \/ \E e \in OperationErrors : OperationRejects(e) /\ UNCHANGED <<now, breakerVars, storeVars, analyzeVars, query, pureVars>>
  \/ SleepDone /\ UNCHANGED <<now, breakerVars, storeVars, analyzeVars, query, pureVars>>

SpecRetry == InitRetry /\ [][NextRetry]_vars

InitBreakerSeq == now = 0 /\ RetryInit /\ BreakerInit /\ AnalyzeIdle /\ QueryIdle /\ PureIdle

NextBreakerSeq ==
  \/ \E c \in Callers : NoCallInFlight /\ BreakerCall(c) /\ UNCHANGED <<now, retryVars, storeVars, analyzeVars, query, pureVars>>
  \/ \E c \in Callers : BreakerOperationResolves(c) /\ UNCHANGED <<now, retryVars, storeVars, analyzeVars, query, pureVars>>
  \/ \E c \in Callers : BreakerOperationRejects(c) /\ UNCHANGED <<now, retryVars, storeVars, analyzeVars, query, pureVars>>
  \/ Tick /\ UNCHANGED <<retryVars, breakerVars, storeVars, analyzeVars, query, pureVars>>

SpecBreakerSeq == InitBreakerSeq /\ [][NextBreakerSeq]_vars

\* Several calls in flight on one breaker: a call may start while another
\* is suspended at `await operation()`.
InitBreakerConc == now = 0 /\ RetryInit /\ BreakerInit /\ AnalyzeIdle /\ QueryIdle /\ PureIdle

NextBreakerConc ==
  \/ \E c \in Callers : BreakerCall(c) /\ UNCHANGED <<now, retryVars, storeVars, analyzeVars, query, pureVars>>
  \/ \E c \in Callers : BreakerOperationResolves(c) /\ UNCHANGED <<now, retryVars, storeVars, analyzeVars, query, pureVars>>
  \/ \E c \in Callers : BreakerOperationRejects(c) /\ UNCHANGED <<now, retryVars, storeVars, analyzeVars, query, pureVars>>
  \/ Tick /\ UNCHANGED <<retryVars, breakerVars, storeVars, analyzeVars, query, pureVars>>

SpecBreakerConc == InitBreakerConc /\ [][NextBreakerConc]_vars

otherThanAnalyze == <<retryVars, breakerVars, query, pureVars>>

InitAnalyze == now = 0 /\ RetryInit /\ BreakerInit /\ AnalyzeInit /\ QueryIdle /\ PureIdle

NextAnalyze ==
  \/ \E p \in Procs, t \in Symbols, pr \in Providers, sv \in BOOLEAN, ff \in BOOLEAN :
        AnalyzeStart(p, t, pr, sv, ff) /\ UNCHANGED <<now, otherThanAnalyze>>
  \/ \E p \in Procs, fault \in BOOLEAN :
        CacheLookupReturns(p, fault) /\ UNCHANGED <<now, otherThanAnalyze>>
  \/ \E p \in Procs, ok \in BOOLEAN, price \in Prices :
        QuoteReturns(p, ok, price) /\ UNCHANGED <<now, otherThanAnalyze>>
  \/ \E p \in Procs, ok \in BOOLEAN :
        OverviewReturns(p, ok) /\ UNCHANGED <<now, otherThanAnalyze>>
  \/ \E p \in Procs, o \in DividendOutcomes :
        DividendsReturn(p, o) /\ UNCHANGED <<now, otherThanAnalyze>>
  \/ \E p \in Procs, f \in {"full", "none"} :
        FundamentalsReturn(p, f) /\ UNCHANGED <<now, otherThanAnalyze>>
  \/ \E p \in Procs, series \in SeriesOutcomes :
        TimeSeriesReturns(p, series) /\ UNCHANGED <<now, otherThanAnalyze>>
  \/ \E p \in Procs, fault \in BOOLEAN :
        EnsureTickerSelectReturns(p, fault) /\ UNCHANGED <<now, otherThanAnalyze>>
  \/ \E p \in Procs, fault \in BOOLEAN :
        InsertTickerReturns(p, fault) /\ UNCHANGED <<now, otherThanAnalyze>>
  \/ \E p \in Procs, fault \in BOOLEAN :
        InsertAnalysisReturns(p, fault) /\ UNCHANGED <<now, otherThanAnalyze>>
  \/ AdvanceClock /\ UNCHANGED <<otherThanAnalyze, storeVars, analyzeVars>>

SpecAnalyze == InitAnalyze /\ [][NextAnalyze]_vars

\* analyze calls made one after the other against a store that may already
\* hold a record of an earlier analysis of the same ticker and options.
OlderPrice == 90
RefreshPrices == {100, 110}

\* the row an earlier analyze('MSFT') saved at time 0
OlderRow ==
  AnalysisRow(FreshAnalysis("MSFT", OlderPrice, "full", NoSeries),
              createOptionsHash(AnalysisOptions("yahoo")), 0)

\* no other call is in flight and the calls before p have been made
MayStart(p) ==
  /\ \A q \in Procs : procs[q].pc \in {"idle", "done", "failed"}
  /\ \A q \in Procs : q < p => procs[q].pc # "idle"

InitRefresh ==
  /\ now = 0 /\ RetryInit /\ BreakerInit /\ QueryIdle /\ PureIdle
  /\ \/ tickers = {} /\ analyses = <<>>
     \/ tickers = {"MSFT"} /\ analyses = <<OlderRow>>
  /\ avAvailable \in BOOLEAN
  /\ procs = [p \in Procs |-> IdleProc]

NextRefresh ==
  \/ \E p \in Procs, t \in Symbols, pr \in Providers, sv \in BOOLEAN, ff \in BOOLEAN :
        MayStart(p) /\ AnalyzeStart(p, t, pr, sv, ff) /\ UNCHANGED <<now, otherThanAnalyze>>
  \/ \E p \in Procs, fault \in BOOLEAN :
        CacheLookupReturns(p, fault) /\ UNCHANGED <<now, otherThanAnalyze>>
  \/ \E p \in Procs, ok \in BOOLEAN, price \in RefreshPrices :
        QuoteReturns(p, ok, price) /\ UNCHANGED <<now, otherThanAnalyze>>
  \/ \E p \in Procs, ok \in BOOLEAN :
        OverviewReturns(p, ok) /\ UNCHANGED <<now, otherThanAnalyze>>
  \/ \E p \in Procs, o \in {"ok", "chartFailed"} :
        DividendsReturn(p, o) /\ UNCHANGED <<now, otherThanAnalyze>>
  \/ \E p \in Procs, f \in {"full"} :
        FundamentalsReturn(p, f) /\ UNCHANGED <<now, otherThanAnalyze>>
  \/ \E p \in Procs, series \in {NoSeries, SeriesOfLength(LongSeriesLen)} :
        TimeSeriesReturns(p, series) /\ UNCHANGED <<now, otherThanAnalyze>>
  \/ \E p \in Procs, fault \in BOOLEAN :
        EnsureTickerSelectReturns(p, fault) /\ UNCHANGED <<now, otherThanAnalyze>>
  \/ \E p \in Procs, fault \in BOOLEAN :
        InsertTickerReturns(p, fault) /\ UNCHANGED <<now, otherThanAnalyze>>
  \/ \E p \in Procs, fault \in BOOLEAN :
        InsertAnalysisReturns(p, fault) /\ UNCHANGED <<now, otherThanAnalyze>>
  \/ AdvanceClock /\ UNCHANGED <<otherThanAnalyze, storeVars, analyzeVars>>

SpecRefresh == InitRefresh /\ [][NextRefresh]_vars

InitCache == now = 0 /\ RetryInit /\ BreakerInit /\ AnalyzeIdle /\ QueryIdle /\ PureIdle

NextCache ==
  \/ \E pr \in Providers :
        /\ saveAnalysis(FreshAnalysis("MSFT", 100, "full", SeriesOfLength(250)),
                        createOptionsHash(AnalysisOptions(pr)))
        /\ UNCHANGED <<now, retryVars, breakerVars, analyzeVars, query, pureVars>>
  \/ \E pr \in Providers, thr \in 1..MaxThresholdTicks :
        /\ GetRecent("MSFT", createOptionsHash(AnalysisOptions(pr)), thr)
        /\ UNCHANGED <<now, retryVars, breakerVars, storeVars, analyzeVars, pureVars>>
  \/ Tick /\ UNCHANGED <<retryVars, breakerVars, storeVars, analyzeVars, query, pureVars>>

SpecCache == InitCache /\ [][NextCache]_vars

InitHydrate ==
  /\ now = 0 /\ RetryInit /\ BreakerInit /\ AnalyzeIdle /\ QueryIdle
  /\ pin \in {<<a>> : a \in FreshAnalyses}
  /\ pout = <<>>

NextHydrate ==
  SaveAndHydrate /\ UNCHANGED <<now, retryVars, breakerVars, storeVars, analyzeVars, query>>

SpecHydrate == InitHydrate /\ [][NextHydrate]_vars

InitHash ==
  /\ now = 0 /\ RetryInit /\ BreakerInit /\ AnalyzeIdle /\ QueryIdle
  /\ \E S \in SUBSET OptionKeys :
       /\ Cardinality(S) \in 1..MaxOptionKeys
       /\ \E val \in [S -> 1..MaxOptionValue], a \in Orderings(S), b \in Orderings(S) :
            pin = <<OptionsObject(a, val), OptionsObject(b, val)>>
  /\ pout = <<>>

NextHash ==
  ComputeHashes /\ UNCHANGED <<now, retryVars, breakerVars, storeVars, analyzeVars, query>>

SpecHash == InitHash /\ [][NextHash]_vars

InitQuote == now = 0 /\ RetryInit /\ BreakerInit /\ AnalyzeIdle /\ QueryIdle /\ PureIdle

NextQuote ==
  \/ \E c \in Callers :
        GetQuoteCall(c) /\ UNCHANGED <<now, retryVars, storeVars, analyzeVars, query, pureVars>>
  \/ \E c \in Callers :
        GetQuoteResolves(c) /\ UNCHANGED <<now, retryVars, storeVars, analyzeVars, query, pureVars>>
  \/ \E c \in Callers :
        GetQuoteRejects(c) /\ UNCHANGED <<now, retryVars, storeVars, analyzeVars, query, pureVars>>
  \/ Tick /\ UNCHANGED <<retryVars, breakerVars, storeVars, analyzeVars, query, pureVars>>

SpecQuote == InitQuote /\ [][NextQuote]_vars

InitHandle ==
  /\ now = 0 /\ RetryInit /\ BreakerInit /\ AnalyzeIdle /\ QueryIdle
  /\ pin \in {<<pr, e>> : pr \in Providers, e \in CaughtErrors}
  /\ pout = <<>>

NextHandle ==
  HandleError /\ UNCHANGED <<now, retryVars, breakerVars, storeVars, analyzeVars, query>>

SpecHandle == InitHandle /\ [][NextHandle]_vars

InitStreak ==
  /\ now = 0 /\ RetryInit /\ BreakerInit /\ AnalyzeIdle /\ QueryIdle
  /\ pin \in {<<series>> : series \in AnnualSeries}
  /\ pout = <<>>

NextStreak ==
  ComputeStreak /\ UNCHANGED <<now, retryVars, breakerVars, storeVars, analyzeVars, query>>

SpecStreak == InitStreak /\ [][NextStreak]_vars

InitElite ==
  /\ now = 0 /\ RetryInit /\ BreakerInit /\ AnalyzeIdle /\ QueryIdle
  /\ pin \in {<<ticker, streak>> : ticker \in EliteInputs, streak \in 0..MaxStreak}
  /\ pout = <<>>

NextElite ==
  AdjustStreak /\ UNCHANGED <<now, retryVars, breakerVars, storeVars, analyzeVars, query>>

SpecElite == InitElite /\ [][NextElite]_vars

InitGrowth ==
  /\ now = 0 /\ RetryInit /\ BreakerInit /\ AnalyzeIdle /\ QueryIdle
  /\ pin \in {<<cagr5, cagr3, f, streak>> :
                 cagr5 \in GrowthInputs, cagr3 \in GrowthInputs,
                 f \in FundamentalsInputs,
                 streak \in {MinSafeStreak - 1, MinSafeStreak}}
  /\ pout = <<>>

NextGrowth ==
  ComputeSafeGrowth /\ UNCHANGED <<now, retryVars, breakerVars, storeVars, analyzeVars, query>>

SpecGrowth == InitGrowth /\ [][NextGrowth]_vars

InitGordon ==
  /\ now = 0 /\ RetryInit /\ BreakerInit /\ AnalyzeIdle /\ QueryIdle
  /\ pin \in {<<fd, price, r, g>> :
                 fd \in ForwardDividends, price \in QuotePrices,
                 r \in RequiredReturns, g \in SafeGrowths}
  /\ pout = <<>>

NextGordon ==
  ComputeGordonGrowth /\ UNCHANGED <<now, retryVars, breakerVars, storeVars, analyzeVars, query>>

SpecGordon == InitGordon /\ [][NextGordon]_vars

InitScores ==
  /\ now = 0 /\ RetryInit /\ BreakerInit /\ AnalyzeIdle /\ QueryIdle
  /\ pin \in {<<f, streak, g, price, series, macd, rsi>> :
                 f \in ScoreFundamentals, streak \in ScoreStreaks, g \in ScoreGrowths,
                 price \in ScorePrices, series \in SeriesOutcomes,
                 macd \in MacdInputs, rsi \in RsiInputs}
  /\ pout = <<>>

NextScores ==
  ComputeScores /\ UNCHANGED <<now, retryVars, breakerVars, storeVars, analyzeVars, query>>

SpecScores == InitScores /\ [][NextScores]_vars

(***************************************************************************)
(* Claims about withRetry                                                  *)
(***************************************************************************)

\* C1: an attempt that fails with an error whose code is not in the policy's
\* retryableErrors ends withRetry at once: no delay is waited (and so the
\* operation is not invoked again) after such an error.  Stated on the state
\* in which a delay is being waited: the error that caused it has a listed code.
C1_UnlistedKindFailsAtOnce ==
  (rPc = "sleeping" /\ rLastError.code # "none")
    => rLastError.code \in RetryConfigs[rConfig].retryableErrors

MaxAttemptsInUse == RetryConfigs[rConfig].maxAttempts
RetryableInUse(e) == isRetryableError(e, RetryConfigs[rConfig].retryableErrors)

C12_SuccessValueReturned ==
  rResolved.done
    => /\ rPc = "returned"
       /\ rResult = ValueResult(rResolved.value)
       /\ rCalls = rAttempt

(***************************************************************************)
(* Claims about the circuit breaker                                        *)
(***************************************************************************)

\* A step in which caller c calls the closure.
CallStep(c) ==
  /\ calls[c].phase # "running"
  /\ calls'[c].phase \in {"running", "rejected"}
  /\ calls'[c] # calls[c]

\* C2: one caller at a time; once failureThreshold consecutive invocations
\* have failed, every call issued before recoveryTime has elapsed since the
\* last of those failures is rejected without invoking the operation.
C2_RejectedInsideRecoveryWindow ==
  [][\A c \in Callers :
       (CallStep(c) /\ consecFails >= FailureThreshold
                    /\ now - lastFailAt < RecoveryTimeMs)
         => calls'[c].phase = "rejected"]_vars

C15_SharedBreakerGuardsProvider ==
  [][\A c \in Callers :
       (CallStep(c) /\ consecFails >= FailureThreshold
                    /\ now - lastFailAt < RecoveryTimeMs)
         => calls'[c].phase # "running"]_vars

\* C23: with several calls in flight on the same circuit breaker, every
\* reachable state satisfies: isOpen implies failures >= failureThreshold;
\* a call that completes successfully after the breaker has opened does
\* not leave the breaker open with the failure count reset to 0.
C23_OpenOnlyAtThreshold ==
  isOpen => failures >= FailureThreshold

(***************************************************************************)
(* Claims about analyze                                                    *)
(***************************************************************************)
ProviderFailures == {"quoteFailed", "dividendsFailed"}
WriteFailures == {"writeFault", "tickerConflict", "dailyConflict"}

Returned(p) == procs[p].pc = "done" /\ procs[p].result.ticker.v = procs[p].ticker

\* C4 (as stated): analyze fails only when quote acquisition fails.
C4_FailsOnlyWhenQuoteFails ==
  \A p \in Procs : procs[p].pc = "failed" => "quoteFailed" \in procs[p].events

\* C4 (amended): analyze fails only when the quote or the dividend events
\* cannot be acquired (an empty or too-short dividend history included);
\* a failure of fundamentals acquisition never makes it fail, and the result
\* is then built from the partial data.
C4_FailsOnlyWhenQuoteOrDividendsFail ==
  \A p \in Procs :
    /\ procs[p].pc = "failed" => procs[p].events \cap ProviderFailures # {}
    /\ "fundamentalsFailed" \in procs[p].events => procs[p].pc # "failed"
    /\ ("fundamentalsFailed" \in procs[p].events /\ procs[p].pc = "done")
         => /\ Returned(p)
            /\ procs[p].result.fundamentals = ProviderFundamentals("none")

\* C4 witness: analyze returned a result although fundamentals were unavailable.
C4_Witness ==
  \E p \in Procs : Returned(p) /\ "fundamentalsFailed" \in procs[p].events

\* C5: no cache-store fault makes analyze fail: after a failed cache read
\* analyze goes on to the providers and, unless they fail, returns the fresh
\* result; after a failed cache write it returns the computed result.
C5_CacheFaultsNeverFail ==
  \A p \in Procs :
    /\ procs[p].events \cap WriteFailures # {}
         => (Returned(p) /\ procs[p].result = procs[p].analysis)
    /\ ("readFault" \in procs[p].events /\ procs[p].pc = "failed")
         => procs[p].events \cap ProviderFailures # {}
    /\ ("readFault" \in procs[p].events /\ procs[p].pc = "done")
         => /\ Returned(p)
            /\ procs[p].result = procs[p].analysis
            /\ "provider" \in procs[p].events

\* C5 witness: a call whose cache read and cache write both failed returned.
C5_Witness ==
  \E p \in Procs :
    Returned(p) /\ {"readFault", "writeFault"} \subseteq procs[p].events

\* C6: with caching enabled and forceFresh false, when the cache returns a
\* record for (ticker, optionsHash), analyze returns the rehydrated record
\* without invoking a provider operation and without writing to the store;
\* a call that returned from the cache does nothing further.
C6_CacheHitReturnsRecordOnly ==
  [][\A p \in Procs :
       LET rec == getRecentAnalysis(analyses, procs[p].ticker, procs[p].optionsHash,
                                    now, CacheHours * TicksPerHour)
       IN /\ ( /\ procs[p].pc = "cacheLookup"
               /\ procs'[p].pc # "cacheLookup"
               /\ "readFault" \notin procs'[p].events
               /\ rec.found )
              => /\ procs'[p].pc = "done"
                 /\ procs'[p].result = hydrateAnalysisFromRecord(rec.row.raw)
                 /\ "provider" \notin procs'[p].events
                 /\ analyses' = analyses
                 /\ tickers' = tickers
          /\ "cacheHit" \in procs[p].events => procs'[p] = procs[p]]_vars

\* C6 witness: a call returned from the cache.
C6_Witness ==
  \E p \in Procs : procs[p].pc = "done" /\ "cacheHit" \in procs[p].events

\* Calls p and q had the same ticker and options, both missed the cache, met
\* no store fault, and both completed.
BothMissed(p, q) ==
  /\ p # q
  /\ procs[p].pc = "done" /\ procs[q].pc = "done"
  /\ procs[p].ticker = procs[q].ticker
  /\ procs[p].optionsHash = procs[q].optionsHash
  /\ "cacheMiss" \in procs[p].events /\ "cacheMiss" \in procs[q].events
  /\ "writeFault" \notin procs[p].events \cup procs[q].events

\* C8: when two analyze calls with the same ticker and options both miss
\* the cache, both complete with a result, both writes are stored, and a
\* getRecent within the TTL returns the record written last.
C8_BothConcurrentWritesStored ==
  \A p, q \in Procs :
    BothMissed(p, q)
      => /\ Returned(p) /\ Returned(q)
         /\ "stored" \in procs[p].events /\ "stored" \in procs[q].events
         /\ LET rec == getRecentAnalysis(analyses, procs[p].ticker, procs[p].optionsHash,
                                         now, CacheHours * TicksPerHour)
                m == { i \in DOMAIN analyses :
                         /\ analyses[i].symbol = procs[p].ticker
                         /\ analyses[i].options_hash = procs[p].optionsHash }
            IN rec.found /\ \A i \in m : rec.row = analyses[i] \/ \E j \in m : j > i

\* C14: any failure of the preferred provider for a datum is followed by an
\* attempt on the bulk/default provider for the same datum before the datum
\* is treated as unavailable; in particular for the close-price series: a
\* call whose preferred-provider series failed has asked the bulk provider
\* for the series ("bulkSeries").
C14_SeriesFallsBackToBulk ==
  \A p \in Procs :
    "seriesFailed" \in procs[p].events => "bulkSeries" \in procs[p].events

\* C16: if acquiring the close-price series fails, or the series is too
\* short for an indicator, analyze does not fail: the affected indicators
\* are reported as unavailable (null) and the rest of the result (scores,
\* totalScore) is still computed and returned.
C16_IndicatorShortfallNeverFails ==
  \A p \in Procs :
    /\ procs[p].events \cap {"seriesFailed", "seriesShort"} # {}
         => procs[p].pc # "failed"
    /\ ("seriesFailed" \in procs[p].events /\ procs[p].pc = "done")
         => /\ Returned(p)
            /\ procs[p].result.ema = EmaData(NoSeries)
            /\ procs[p].result.scores.payout.t = "num"
            /\ procs[p].result.scores.trend = Num(0)
            /\ procs[p].result.totalScore.t = "num"
    /\ ("seriesShort" \in procs[p].events /\ procs[p].pc = "done")
         => /\ Returned(p)
            /\ procs[p].result.ema.ema200 = Null
            /\ procs[p].result.scores.payout.t = "num"
            /\ procs[p].result.scores.trend = Num(0)
            /\ procs[p].result.totalScore.t = "num"

\* C16 witness: one call returned after its series request failed and
\* another after a series too short for EMA200.
C16_Witness ==
  \E p, q \in Procs :
    /\ Returned(p) /\ "seriesFailed" \in procs[p].events
    /\ Returned(q) /\ "seriesShort" \in procs[q].events
    /\ procs[q].result.ema.ema20 # Null

\* C24: after an analyze call with caching enabled has computed a fresh
\* result (on a cache miss or with forceFresh), a following analyze call
\* for the same ticker and options, made within the TTL and without
\* forceFresh, returns that most recently computed result, also when an
\* older record for the same ticker and options was already stored.
\* (Call 1 computed and the store took its requests without a fault; call
\* 2 was made after call 1 returned and its cache lookup was answered.)
C24_FollowingCallReturnsLatest ==
  \A p \in Procs \ {NumAnalyses} :
    ( /\ procs[p].pc = "done" /\ procs[p].saveToDb
      /\ "provider" \in procs[p].events /\ "writeFault" \notin procs[p].events
      /\ procs[p + 1].pc = "done"
      /\ procs[p + 1].ticker = procs[p].ticker
      /\ procs[p + 1].optionsHash = procs[p].optionsHash
      /\ procs[p + 1].events \cap {"cacheHit", "cacheMiss"} # {}
      /\ now - procs[p].observedAt < CacheHours * TicksPerHour )
    => procs[p + 1].result = hydrateAnalysisFromRecord(RawAnalysis(procs[p].analysis))

(***************************************************************************)
(* Claims about the cache store                                            *)
(***************************************************************************)

\* C7: for every maxAgeHours > 0, fractional ones included, getRecent
\* returns no record when the newest matching record is older than
\* maxAgeHours, and the newest matching record when its age is at most
\* maxAgeHours.
C7_GetRecentHonoursMaxAge ==
  query.asked =>
    IF query.newest >= 0 /\ query.at - query.newest <= query.thresholdTicks
      THEN query.found /\ query.observed_at = query.newest
      ELSE ~query.found

\* C9: saving a freshly computed analysis and rehydrating the stored record
\* yields a result equal to the fresh one in every field.
C9_RehydratedEqualsFresh ==
  pout # <<>> => pout[1] = pin[1]

\* C10: createOptionsHash returns the same key for two option objects that
\* hold the same key/value pairs, whatever the insertion order.
C10_HashIgnoresInsertionOrder ==
  pout # <<>> => pout[1] = pout[2]

\* C10 witness: the hashes of two objects with different insertion orders
\* have been computed.
C10_Witness ==
  pout # <<>> /\ pin[1] # pin[2]

(***************************************************************************)
(* Claims about the provider error handlers                                *)
(***************************************************************************)

\* C13: when a provider call fails after its retry sequence, the error
\* that reaches the orchestrator has the same kind and the same retryable
\* flag as the error that ended the retry sequence.
C13_ErrorKindPreserved ==
  pout # <<>> => (pout[1].cls = pin[2].err.cls /\ pout[1].flag = pin[2].err.flag)

(***************************************************************************)
(* Claims about the dividend calculator                                    *)
(***************************************************************************)

\* the totals of the series do not decrease from a year to a later year
NonDecreasingByYear(series) ==
  \A i, j \in 1..Len(series) :
    series[i][1] < series[j][1] => series[i][2] <= series[j][2]

\* C17 as stated: for every annual series whose totals are non-decreasing
\* by year, of any length and in any order of presentation, the streak is
\* series.length - 1.
C17_NonDecreasingFullStreak ==
  (pout # <<>> /\ NonDecreasingByYear(pin[1])) => pout[1] = Len(pin[1]) - 1

\* C17 amended: for every annual series of at least one year whose totals
\* are non-decreasing by year, in any order of presentation, the streak is
\* series.length - 1; the empty series has streak 0.
C17_NonEmptyNonDecreasingFullStreak ==
  (pout # <<>> /\ NonDecreasingByYear(pin[1])) =>
     pout[1] = IF pin[1] = <<>> THEN 0 ELSE Len(pin[1]) - 1

\* C17 witness: the streak of a non-decreasing series of three or more
\* years, presented out of year order, has been computed.
C17_Witness ==
  /\ pout # <<>> /\ NonDecreasingByYear(pin[1])
  /\ Len(pin[1]) >= 3 /\ pin[1][1][1] > pin[1][2][1]
  /\ pin[1][1][2] > pin[1][2][2]

\* the value is a number above zero
Positive(x) == isFinite(x) /\ x.v > 0

\* the value is a number greater than the limit (NaN > limit is false)
Above(x, limit) == isFinite(x) /\ x.v > limit

\* C19: the safe growth rate is never positive when epsPayoutRatio > 0.8,
\* or fcfPayoutRatio > 1.0, or the streak passed in is below 3, whatever
\* cagr5 and cagr3 are.
C19_DistressedNeverGrows ==
  (/\ pout # <<>>
   /\ \/ Above(epsPayoutRatio(pin[3]), EpsPayoutLimit)
      \/ Above(fcfPayoutRatio(pin[3]), FcfPayoutLimit)
      \/ pin[4] < MinSafeStreak)
    => ~Positive(pout[1])

\* C19 witness: safe growth has been computed from a positive five-year
\* rate for an issuer with a long streak, sound free cash flow cover and an
\* EPS payout above 0.8, and it is zero.
C19_Witness ==
  /\ pout # <<>> /\ Positive(pin[1]) /\ pin[4] >= MinSafeStreak
  /\ isFinite(epsPayoutRatio(pin[3])) /\ epsPayoutRatio(pin[3]).v > EpsPayoutLimit
  /\ isFinite(fcfPayoutRatio(pin[3])) /\ fcfPayoutRatio(pin[3]).v <= FcfPayoutLimit
  /\ pout[1] = Num(0)

\* C20: the Gordon Growth computation returns no value whenever
\* requiredReturn <= clamp(safeGrowth, -0.05, 0.06), and whenever it does
\* return a value the divisor requiredReturn - g it used is strictly
\* positive.
C20_NoValueUnlessReturnExceedsGrowth ==
  pout # <<>> =>
    LET g == clamp(pin[4], Num(ConservativeFloor), Num(ConservativeCap))
    IN /\ (isFinite(pin[3]) /\ isFinite(g) /\ pin[3].v <= g.v) => pout[1] = NoValue
       /\ pout[1] # NoValue => Positive(pout[1].divisor)

\* C20 witness: a value has been returned for a required return just above
\* the capped growth rate, and no value for one equal to it.
C20_Witness ==
  /\ pout # <<>> /\ ~Falsy(pin[2]) /\ isFinite(pin[1])
  /\ pin[4] = Num(SafeGrowthCap)
  /\ \/ pin[3] = Num(ConservativeCap) /\ pout[1] = NoValue
     \/ pin[3] = Num(ConservativeCap + 30) /\ pout[1].value = Num(Ratio(pin[1].v, 30))

(***************************************************************************)
(* Claims about the elite-stock validator                                  *)
(***************************************************************************)

\* C18: for a listed elite ticker whose computed streak is at least 10 but
\* less than half the expected streak, the streak used by the analysis is
\* the computed streak unchanged; a different streak is substituted only
\* when the computed streak is below 10 and below half the expected one.
C18_DampenedOnlyBelowTen ==
  pout # <<>> =>
    LET expected == getExpectedStreak(pin[1])
    IN /\ (expected # Null /\ pin[2] >= 10 /\ 2 * pin[2] < expected.v)
            => pout[2] = pin[2]
       /\ pout[2] # pin[2]
            => (expected # Null /\ pin[2] < 10 /\ 2 * pin[2] < expected.v)

\* the step from year i-1 to year i of a series sorted by year declines by
\* more than the tolerance of 2%
Declines(sorted, i) == 100 * sorted[i][2] < DeclineKeepPct * sorted[i - 1][2]

\* that decline is below the noise threshold of 5% and the following, more
\* recent year is back to at least previous * (1 - tolerance)
Forgiven(sorted, i) ==
  /\ Declines(sorted, i)
  /\ 100 * (sorted[i - 1][2] - sorted[i][2]) < NoiseDeclinePct * sorted[i - 1][2]
  /\ i < Len(sorted)
  /\ 100 * sorted[i + 1][2] >= DeclineKeepPct * sorted[i - 1][2]

\* the steps counted by a scan from the most recent year backward that
\* stops at the first decline that is not forgiven
CountedSteps(sorted) ==
  { i \in 2..Len(sorted) :
      \A j \in i..Len(sorted) : ~Declines(sorted, j) \/ Forgiven(sorted, j) }

\* C25: in the streak scan a decline larger than the tolerance (2%) is
\* counted if and only if it is smaller than the noise threshold (5%) and
\* the following, more recent year's total is at least
\* previous * (1 - tolerance); a decline at the most recent step is never
\* forgiven, and any decline of 5% or more ends the count at that step.
C25_DeclineForgivenOnlyAsNoise ==
  pout # <<>> => pout[1] = Cardinality(CountedSteps(SortByYear(pin[1])))

\* C25 witness: a streak has been computed that counts a forgiven decline,
\* and one that stops at a decline of exactly 5%.
C25_Witness ==
  /\ pout # <<>>
  /\ LET sorted == SortByYear(pin[1])
     IN \/ \E i \in 2..Len(sorted) : Forgiven(sorted, i) /\ pout[1] > Len(sorted) - i
        \/ /\ Len(sorted) = MaxSeriesLen
           /\ sorted[Len(sorted) - 1][2] = 95 /\ sorted[Len(sorted) - 2][2] = 100
           /\ sorted[Len(sorted)][2] = 100 /\ pout[1] = 1

\* C26: the streak counts consecutive calendar years only: counting back
\* from the most recent year, a calendar year absent from the annual
\* series ends the streak, so a step between two entries whose years are
\* not adjacent is never counted.
C26_YearGapEndsStreak ==
  pout # <<>> =>
    LET sorted == SortByYear(pin[1])
    IN \A i \in 2..Len(sorted) :
         sorted[i][1] - sorted[i - 1][1] > 1 => pout[1] <= Len(sorted) - i

(***************************************************************************)
(* Claims about the score calculator                                       *)
(***************************************************************************)

\* a score between 0 and 100 points
InScoreRange(x) == isFinite(x) /\ x.v >= 0 /\ x.v <= FullScore

\* C21: for all inputs, including unknown (non-finite) ratios and
\* unavailable indicators, each of the seven sub-scores lies in [0,100] and
\* totalScore is an integer in [0,100].
C21_ScoresWithinRange ==
  pout # <<>> =>
    /\ \A k \in {"payout", "fcf", "streak", "growth", "trend", "macd", "rsi"} :
         InScoreRange(pout[1][k])
    /\ isFinite(pout[2]) /\ pout[2].v \in 0..100

\* C21 witness: the scores have been computed from unknown payout and
\* coverage ratios and unavailable EMA, MACD and RSI figures.
C21_Witness ==
  /\ pout # <<>>
  /\ ~isFinite(epsPayoutRatio(pin[1])) /\ ~isFinite(fcfCoverage(pin[1]))
  /\ pin[5] = NoSeries /\ pout[3].ema200 = Null /\ pin[6] = NoMacd /\ pin[7] = NoRsi
  /\ pout[1].payout = Num(FullScore) /\ pout[1].fcf = Num(0)

\* C22 as stated: with a close-price series of length 150 all three EMA
\* snapshot fields are unavailable, trendScore is 0 and totalScore is still
\* computed.
C22_ShortSeriesAllUnavailable ==
  (pout # <<>> /\ pin[5] = SeriesOfLength(ShortSeriesLen)) =>
    /\ pout[3].ema20 = Null /\ pout[3].ema50 = Null /\ pout[3].ema200 = Null
    /\ pout[1].trend = Num(0)
    /\ isFinite(pout[2])

\* C22 amended: with a close-price series of length 150, ema20 and ema50
\* are reported and only ema200 is unavailable; trendScore is 0 and
\* totalScore is still computed.
C22_ShortSeriesOnlyEma200Unavailable ==
  (pout # <<>> /\ pin[5] = SeriesOfLength(ShortSeriesLen)) =>
    /\ isFinite(pout[3].ema20) /\ isFinite(pout[3].ema50) /\ pout[3].ema200 = Null
    /\ pout[1].trend = Num(0)
    /\ isFinite(pout[2]) /\ pout[2].v \in 0..100

\* C22 witness: the scores of a quote priced above the EMAs have been
\* computed from a series of length 150.
C22_Witness ==
  /\ pout # <<>> /\ pin[5] = SeriesOfLength(ShortSeriesLen)
  /\ pin[4] = 100 /\ pout[2].v > 0

\* C27: the delay waited after failed attempt k is at least
\* min(maxDelay, baseDelay * multiplier^(k-1)), at most
\* min(maxDelay, baseDelay * multiplier^(k-1) * (1 + jitterFactor)), and
\* never exceeds maxDelay.
ConfigInUse == RetryConfigs[rConfig]
MaxDelayInUse == ConfigInUse.maxDelayMs * 1000
Smaller(a, b) == IF a < b THEN a ELSE b
C27_JitteredDelayReached ==
  /\ rPc = "sleeping" /\ rConfig = "rateLimit" /\ rAttempt = 4
  /\ rDelay > BackoffDelay(rAttempt, ConfigInUse)

(***************************************************************************)
(* new Fundamentals(data) on provider data whose fields are plain numbers  *)
(* or objects of the shape {raw: x}.                                       *)
(***************************************************************************)
Field(raw) == [t |-> "obj", raw |-> raw]

\* Fundamentals.extractValue(field)
extractFieldValue(field) ==
  IF Falsy(field) THEN NaN
  ELSE IF field.t = "num" THEN field
  ELSE extractValue(field.raw)

\* new Fundamentals(data)
FundamentalsOf(data) ==
  [ operatingCashFlow  |-> extractFieldValue(data.OperatingCashFlow),
    capitalExpenditure |-> Abs(extractFieldValue(data.CapitalExpenditure)),
    cashDividendsPaid  |-> Abs(extractFieldValue(data.CashDividendsPaid)),
    netIncome          |-> extractFieldValue(data.NetIncome),
    payoutRatio        |-> extractFieldValue(data.payoutRatio) ]

\* the shapes a provider field arrives in
FieldInputs(v) == {Undefined, Field(Undefined), Field(Num(0)), Field(Num(v)), Num(0), Num(v)}

ProviderData ==
  [ OperatingCashFlow  : {Undefined, Field(Num(1200)), Num(200)},
    CapitalExpenditure : {Undefined, Field(Num(-200)), Num(0)},
    CashDividendsPaid  : FieldInputs(-500),
    NetIncome          : {Undefined, Field(Num(0)), Num(1000)},
    payoutRatio        : FieldInputs(850) ]

BuildFundamentals ==
  /\ pout = <<>>
  /\ pout' = << FundamentalsOf(pin[1]) >>
  /\ UNCHANGED pin

InitFundamentals ==
  /\ now = 0 /\ RetryInit /\ BreakerInit /\ AnalyzeIdle /\ QueryIdle
  /\ pin \in {<<data>> : data \in ProviderData}
  /\ pout = <<>>

NextFundamentals ==
  BuildFundamentals /\ UNCHANGED <<now, retryVars, breakerVars, storeVars, analyzeVars, query>>

SpecFundamentals == InitFundamentals /\ [][NextFundamentals]_vars

\* the provider supplied a finite value for the field
Supplied(field) ==
  \/ field.t = "num"
  \/ field.t = "obj" /\ field.raw.t = "num"

\* C28: a field or payout ratio of the Fundamentals is finite exactly when
\* the provider supplied finite values for its inputs; a missing input never
\* yields 0 and a supplied 0 never yields unknown.
C28_UnknownExactlyWhenNotSupplied ==
  pout # <<>> =>
    LET data == pin[1]
        f == pout[1]
        fcfSupplied == /\ Supplied(data.OperatingCashFlow)
                       /\ Supplied(data.CapitalExpenditure)
    IN  /\ isFinite(f.operatingCashFlow) <=> Supplied(data.OperatingCashFlow)
        /\ isFinite(f.capitalExpenditure) <=> Supplied(data.CapitalExpenditure)
        /\ isFinite(f.cashDividendsPaid) <=> Supplied(data.CashDividendsPaid)
        /\ isFinite(f.netIncome) <=> Supplied(data.NetIncome)
        /\ isFinite(f.payoutRatio) <=> Supplied(data.payoutRatio)
        /\ isFinite(freeCashFlow(f)) <=> fcfSupplied
        /\ isFinite(fcfPayoutRatio(f)) <=>
             (fcfSupplied /\ Supplied(data.CashDividendsPaid))
        /\ isFinite(epsPayoutRatio(f)) <=>
             \/ Supplied(data.payoutRatio)
             \/ Supplied(data.CashDividendsPaid) /\ Supplied(data.NetIncome)

\* C28, the part the code keeps: a field the provider did not supply is
\* never turned into a number.
C28_MissingNeverYieldsNumber ==
  pout # <<>> =>
    /\ ~Supplied(pin[1].CashDividendsPaid) => ~isFinite(pout[1].cashDividendsPaid)
    /\ ~Supplied(pin[1].payoutRatio) => ~isFinite(pout[1].payoutRatio)

(***************************************************************************)
(* DividendCalculator.annualizeDividends.  The date of an event is counted *)
(* in days since 1 January FirstYear, 00:00 UTC; amounts are in cents.     *)
(***************************************************************************)
MaxEvents == 3            \* most dividend events in a collection

DaysIn(year) ==
  IF year % 4 = 0 /\ (year % 100 # 0 \/ year % 400 = 0) THEN 366 ELSE 365

RECURSIVE YearFrom(_, _)
YearFrom(year, days) ==
  IF days < DaysIn(year) THEN year ELSE YearFrom(year + 1, days - DaysIn(year))

\* DividendEvent.year: this.date.getUTCFullYear()
EventYear(event) == YearFrom(FirstYear, event.date)

\* first and last day of 2019, first and last day of 2020, first day of 2021
EventDates == {0, 364, 365, 730, 731}
EventAmounts == {25, 50}
DividendEvents == [date : EventDates, amount : EventAmounts]
EventCollections == UNION {[1..n -> DividendEvents] : n \in 0..MaxEvents}

\* map.set(year, (map.get(year) || 0) + amount); the entries of a Map are
\* kept in the order their keys were first set in
RECURSIVE MapSet(_, _, _)
MapSet(entries, year, amount) ==
  IF entries = <<>> THEN << <<year, amount>> >>
  ELSE IF Head(entries)[1] = year
    THEN << <<year, Head(entries)[2] + amount>> >> \o Tail(entries)
  ELSE <<Head(entries)>> \o MapSet(Tail(entries), year, amount)

\* the for loop of annualizeDividends over the first n events (the amounts
\* of events that passed isValid are finite, so none is skipped)
RECURSIVE AnnualMap(_, _)
AnnualMap(dividendEvents, n) ==
  IF n = 0 THEN <<>>
  ELSE MapSet(AnnualMap(dividendEvents, n - 1),
              EventYear(dividendEvents[n]), dividendEvents[n].amount)

\* Mutant: the entries are returned in the order of the Map.
annualizeDividendsUnsorted(dividendEvents) ==
  AnnualMap(dividendEvents, Len(dividendEvents))

annualizeDividends(dividendEvents) ==
  SortByYear(AnnualMap(dividendEvents, Len(dividendEvents)))

\* annualDividends = DividendCalculator.annualizeDividends(dividendEvents)
Annualize ==
  /\ pout = <<>>
  /\ pout' = << annualizeDividends(pin[1]) >>
  /\ UNCHANGED pin

InitAnnualize ==
  /\ now = 0 /\ RetryInit /\ BreakerInit /\ AnalyzeIdle /\ QueryIdle
  /\ pin \in {<<events>> : events \in EventCollections}
  /\ pout = <<>>

NextAnnualize ==
  Annualize /\ UNCHANGED <<now, retryVars, breakerVars, storeVars, analyzeVars, query>>

SpecAnnualize == InitAnnualize /\ [][NextAnnualize]_vars

\* C29: whatever the order of the events and the number of events per year,
\* the annual series has exactly one entry for each UTC calendar year in
\* which an event falls, and its years are strictly increasing.
C29_OneEntryPerYearIncreasing ==
  pout # <<>> =>
    LET events == pin[1]
        series == pout[1]
    IN  /\ \A i \in 1..(Len(series) - 1) : series[i][1] < series[i + 1][1]
        /\ {series[i][1] : i \in 1..Len(series)}
             = {EventYear(events[k]) : k \in 1..Len(events)}

\* C29 witness: a series of two years was built from three events presented
\* latest first, two of them in the same year.
C29_Witness ==
  /\ pout # <<>> /\ Len(pin[1]) = 3 /\ Len(pout[1]) = 2
  /\ EventYear(pin[1][1]) > EventYear(pin[1][2])
  /\ EventYear(pin[1][2]) = EventYear(pin[1][3])
  /\ pin[1][2].date # pin[1][3].date

\* the streak getAdjustedStreak returns for the ticker under check
AdjustedFor(calculatedStreak) ==
  getAdjustedStreak(pin[1], calculatedStreak).adjustedStreak

====
